---- MODULE Spec2Model ----
(***************************************************************************)
(* A model of lcapy/schemcpts.py: the schematic components, the registry   *)
(* of component classes, the factory make(), the geometry each component  *)
(* contributes to the layout solver, and the drawing commands it emits.    *)
(*                                                                         *)
(* Conventions.  A Python string that the code only compares is a TLA+     *)
(* string.  A string the code builds (an id, a name) is a sequence of      *)
(* tokens, so that concatenation is \o.  A dict is a function whose        *)
(* DOMAIN is its key set.  A class is its method resolution order: a       *)
(* sequence of layers, most derived first.  A coordinate is a pair         *)
(* <<h, d>>: h hundredths plus d units of floating-point drift (the error  *)
(* of np.cos / np.sin at multiples of 90 degrees, about 6.1e-17 a unit).   *)
(***************************************************************************)
EXTENDS Integers, Sequences, FiniteSets, TLC

VARIABLES
    loaded,       \* how many of the module's defcpt calls have run
    sch_anon,     \* sch.anon: cpt_type -> last auto id handed out
    cpts,         \* every Cpt object constructed so far, in construction order
    sch_elements, \* sch.elements: name -> index into cpts
    sch_nodes,    \* sch.nodes: node name -> [pos, port, vis]
    graphs,       \* what the layout solver was handed: a set of link/add calls
    out           \* the outcome of the last call

vars == <<loaded, sch_anon, cpts, sch_elements, sch_nodes, graphs, out>>

(***************************************************************************)
(* Bounds of the model.                                                    *)
(***************************************************************************)
MaxCpts == 3

(***************************************************************************)
(* Small helpers on sequences and dicts.                                   *)
(***************************************************************************)
Range(s) == {s[i] : i \in DOMAIN s}

EmptyDict == <<>>

\* d with d[k] = v, as Python's d[k] = v
DictSet(d, k, v) == (k :> v) @@ d

\* d without key k, as Python's del d[k] / d.pop(k)
DictDel(d, k) == [x \in (DOMAIN d) \ {k} |-> d[x]]

(***************************************************************************)
(* str(n) for a natural number: its decimal digits, most significant       *)
(* first.                                                                  *)
(***************************************************************************)
Digits == <<"0", "1", "2", "3", "4", "5", "6", "7", "8", "9">>

RECURSIVE Str(_)
Str(n) == IF n < 10 THEN <<Digits[n + 1]>>
          ELSE Str(n \div 10) \o <<Digits[(n % 10) + 1]>>

(***************************************************************************)
(* string.split(';')[0]: the tokens before the first ';'.                  *)
(***************************************************************************)
RECURSIVE SplitHead(_)
SplitHead(s) == IF s = <<>> THEN <<>>
                ELSE IF Head(s) = ";" THEN <<>>
                ELSE <<Head(s)>> \o SplitHead(Tail(s))

(***************************************************************************)
(* Classes.  A layer is one class statement (origin "module") or one       *)
(* defcpt call (origin "defcpt"); tikz is <<>> when the layer sets no      *)
(* tikz_cpt attribute and <<tag>> when it sets one.                        *)
(***************************************************************************)
Layer(name, origin, doc, tikz) ==
    [name |-> name, origin |-> origin, doc |-> doc, tikz |-> tikz]

ModuleClass(name, doc, base) == <<Layer(name, "module", doc, <<>>)>> \o base

CptClass        == ModuleClass("Cpt", "", <<>>)
TransistorClass == ModuleClass("Transistor", "Transistor", CptClass)
JFETClass       == ModuleClass("JFET", "Transistor", TransistorClass)
MOSFETClass     == ModuleClass("MOSFET", "Transistor", TransistorClass)
TwoPortClass    == ModuleClass("TwoPort", "Two-port", CptClass)
TF1Class        == ModuleClass("TF1", "Transformer", TwoPortClass)
TFClass         == ModuleClass("TF", "Transformer", TF1Class)
KClass          == ModuleClass("K", "Mutual coupling", TF1Class)
OnePortClass    == ModuleClass("OnePort", "OnePort", CptClass)
VCSClass        == ModuleClass("VCS", "Voltage controlled source", OnePortClass)
CCSClass        == ModuleClass("CCS", "Current controlled source", OnePortClass)
OpampClass      == ModuleClass("Opamp", "", CptClass)
FDOpampClass    == ModuleClass("FDOpamp", "", CptClass)
SPDTClass       == ModuleClass("SPDT", "SPDT switch", CptClass)
LogicClass      == ModuleClass("Logic", "Logic", CptClass)
WireClass       == ModuleClass("Wire", "", OnePortClass)

\* The classes that are attributes of the module: what getattr(module, name) finds.
ModuleClasses ==
    [n \in {"Cpt", "Transistor", "JFET", "MOSFET", "TwoPort", "TF1", "TF", "K",
            "OnePort", "VCS", "CCS", "Opamp", "FDOpamp", "SPDT", "Logic", "Wire"} |->
        CASE n = "Cpt" -> CptClass
          [] n = "Transistor" -> TransistorClass
          [] n = "JFET" -> JFETClass
          [] n = "MOSFET" -> MOSFETClass
          [] n = "TwoPort" -> TwoPortClass
          [] n = "TF1" -> TF1Class
          [] n = "TF" -> TFClass
          [] n = "K" -> KClass
          [] n = "OnePort" -> OnePortClass
          [] n = "VCS" -> VCSClass
          [] n = "CCS" -> CCSClass
          [] n = "Opamp" -> OpampClass
          [] n = "FDOpamp" -> FDOpampClass
          [] n = "SPDT" -> SPDTClass
          [] n = "Logic" -> LogicClass
          [] n = "Wire" -> WireClass]

\* A base given to defcpt: a class object, or the name of a registered class.
ByObj(cls)  == [isstr |-> FALSE, name |-> "", cls |-> cls]
ByName(nm)  == [isstr |-> TRUE, name |-> nm, cls |-> <<>>]
NoTag       == <<>>
Tag(t)      == <<t>>

\* defcpt(name, base, docstring, cpt): the registry after the call.
defcpt(reg, name, base, docstring, cpt) ==
    LET b        == IF base.isstr THEN reg[base.name] ELSE base.cls
        newclass == <<Layer(name, "defcpt", docstring, cpt)>> \o b
    IN  DictSet(reg, name, newclass)

\* The module's defcpt calls, in file order.
DefcptCalls == <<
    <<"C", ByObj(OnePortClass), "Capacitor", Tag("C")>>,
    <<"D", ByObj(OnePortClass), "Diode", Tag("D")>>,
    <<"Dled", ByName("D"), "LED", Tag("leD")>>,
    <<"Dphoto", ByName("D"), "Photo diode", Tag("pD")>>,
    <<"Dschottky", ByName("D"), "Schottky diode", Tag("zD")>>,
    <<"Dtunnel", ByName("D"), "Tunnel diode", Tag("tD")>>,
    <<"Dzener", ByName("D"), "Zener diode", Tag("zD")>>,
    <<"E", ByObj(VCSClass), "VCVS", Tag("american controlled voltage source")>>,
    <<"Eopamp", ByObj(OpampClass), "Opamp", NoTag>>,
    <<"Efdopamp", ByObj(FDOpampClass), "Fully differential opamp", NoTag>>,
    <<"F", ByObj(VCSClass), "CCCS", Tag("american controlled current source")>>,
    <<"G", ByObj(CCSClass), "VCCS", Tag("american controlled current source")>>,
    <<"H", ByObj(CCSClass), "CCVS", Tag("american controlled voltage source")>>,
    <<"I", ByObj(OnePortClass), "Current source", Tag("I")>>,
    <<"sI", ByObj(OnePortClass), "Current source", Tag("I")>>,
    <<"Isin", ByName("I"), "Sinusoidal current source", Tag("sI")>>,
    <<"Idc", ByName("I"), "DC current source", Tag("I")>>,
    <<"Iac", ByName("I"), "AC current source", Tag("sI")>>,
    <<"J", ByObj(JFETClass), "N JFET transistor", Tag("njfet")>>,
    <<"Jnjf", ByName("J"), "N JFET transistor", Tag("njfet")>>,
    <<"Jpjf", ByName("J"), "P JFET transistor", Tag("pjfet")>>,
    <<"L", ByObj(OnePortClass), "Inductor", Tag("L")>>,
    <<"M", ByObj(MOSFETClass), "N MOSJFET transistor", Tag("nmos")>>,
    <<"Mnmos", ByName("M"), "N channel MOSJFET transistor", Tag("nmos")>>,
    <<"Mpmos", ByName("M"), "P channel MOSJFET transistor", Tag("pmos")>>,
    <<"O", ByObj(OnePortClass), "Open circuit", Tag("open")>>,
    <<"P", ByObj(OnePortClass), "Port", Tag("open")>>,
    <<"Q", ByObj(TransistorClass), "NPN transistor", Tag("npn")>>,
    <<"Qpnp", ByName("Q"), "PNP transistor", Tag("pnp")>>,
    <<"Qnpn", ByName("Q"), "NPN transistor", Tag("npn")>>,
    <<"R", ByObj(OnePortClass), "Resistor", Tag("R")>>,
    <<"SW", ByObj(OnePortClass), "Switch", Tag("closing switch")>>,
    <<"SWno", ByName("SW"), "Normally open switch", Tag("closing switch")>>,
    <<"SWnc", ByName("SW"), "Normally closed switch", Tag("opening switch")>>,
    <<"SWpush", ByName("SW"), "Pushbutton switch", Tag("push button")>>,
    <<"SWspdt", ByObj(SPDTClass), "SPDT switch", Tag("spdt")>>,
    <<"TF", ByObj(TwoPortClass), "Transformer", Tag("transformer")>>,
    <<"TP", ByObj(TwoPortClass), "Two port", Tag("")>>,
    <<"Ubuffer", ByObj(LogicClass), "Buffer", Tag("buffer")>>,
    <<"Uinverter", ByObj(LogicClass), "Inverter", Tag("american not port")>>,
    <<"V", ByObj(OnePortClass), "Voltage source", Tag("V")>>,
    <<"sV", ByObj(OnePortClass), "Voltage source", Tag("V")>>,
    <<"Vsin", ByName("V"), "Sinusoidal voltage source", Tag("sV")>>,
    <<"Vdc", ByName("V"), "DC voltage source", Tag("V")>>,
    <<"Vstep", ByName("V"), "Step voltage source", Tag("V")>>,
    <<"Vac", ByName("V"), "AC voltage source", Tag("sV")>>,
    <<"W", ByObj(WireClass), "Wire", Tag("short")>>,
    <<"Y", ByObj(OnePortClass), "Admittance", Tag("european resistor")>>,
    <<"Z", ByObj(OnePortClass), "Impedance", Tag("european resistor")>> >>

\* The registry after the first k defcpt calls, starting from classes = {}.
RECURSIVE RegistryAfter(_)
RegistryAfter(k) ==
    IF k = 0 THEN EmptyDict
    ELSE LET c == DefcptCalls[k]
         IN  defcpt(RegistryAfter(k - 1), c[1], c[2], c[3], c[4])

\* The registry once the module is loaded.
LoadedClasses == RegistryAfter(Len(DefcptCalls))

\* classes, the module's registry: type-name -> class.  Only defcpt writes it.
classes == IF loaded = Len(DefcptCalls) THEN LoadedClasses ELSE RegistryAfter(loaded)

(***************************************************************************)
(* Attribute and method lookup along a class's resolution order.           *)
(***************************************************************************)
\* cls.__name__
ClassName(cls) == cls[1].name

\* Whether the class has a tikz_cpt attribute, and its value.
HasTikz(cls) == \E i \in DOMAIN cls : cls[i].tikz # <<>>

TikzCpt(cls) ==
    LET i == CHOOSE j \in DOMAIN cls :
                 /\ cls[j].tikz # <<>>
                 /\ \A k \in 1..(j - 1) : cls[k].tikz = <<>>
    IN  cls[i].tikz[1]

\* The module class that supplies a member defined by the classes `definers`:
\* the first layer of the resolution order that is one of them.
Resolve(cls, definers) ==
    LET Hit(j) == cls[j].origin = "module" /\ cls[j].name \in definers
        i == CHOOSE j \in DOMAIN cls : Hit(j) /\ \A k \in 1..(j - 1) : ~Hit(k)
    IN  cls[i].name

(***************************************************************************)
(* Construction.                                                           *)
(***************************************************************************)
\* A count-based id: one more than the anonymous components of the type now
\* filed in the schematic, so that an id comes back after a removal.
Cpt_anon_counted(schAnon, cpt_type) ==
    LET n == Cardinality({nm \in DOMAIN sch_elements :
                             /\ cpts[sch_elements[nm]].type = cpt_type
                             /\ cpts[sch_elements[nm]].id = <<>>})
    IN  [anon |-> DictSet(schAnon, cpt_type, n + 1), str |-> Str(n + 1)]

\* Cpt.anon: the next auto id of a type, as a string, and sch.anon after it.
Cpt_anon(schAnon, cpt_type) ==
    LET a == IF cpt_type \notin DOMAIN schAnon
             THEN DictSet(schAnon, cpt_type, 0) ELSE schAnon
        b == DictSet(a, cpt_type, a[cpt_type] + 1)
    IN  [anon |-> b, str |-> Str(b[cpt_type])]

\* Cpt.__init__ on a fresh instance of cls.  sch is "sch" or "None".
\* Lnames holds the attributes Lname1 and Lname2 that K.__init__ set before
\* (<<>>: not set); tcoords is the _tcoords attribute (<<>>: not set); attrs
\* holds the attributes the owner sets on the instance later (the labels).
Cpt_init(cls, Lnames, sch, schAnon, cpt_type, cpt_id, string, opts_string, nodes, args) ==
    LET gen    == cpt_id = <<>> /\ sch # "None"
        a      == IF gen THEN Cpt_anon(schAnon, cpt_type)
                  ELSE [anon |-> schAnon, str |-> <<>>]
        cpt_id2 == IF gen THEN <<"@">> \o a.str ELSE cpt_id
        name   == <<cpt_type>> \o cpt_id2
    IN  [err  |-> "",
         anon |-> a.anon,
         cpt  |-> [sch |-> sch, type |-> cpt_type, id |-> cpt_id,
                   net |-> SplitHead(string), opts_string |-> opts_string,
                   nodes |-> nodes, name |-> name, args |-> args,
                   classname |-> ClassName(cls), opts |-> EmptyDict,
                   cls |-> cls, Lnames |-> Lnames, tcoords |-> <<>>,
                   attrs |-> EmptyDict]]

\* The result of a constructor that raised.
Raised(err, schAnon) == [err |-> err, anon |-> schAnon, cpt |-> <<>>]

\* K.__init__: args[0] and args[1] name the two inductors; no lookup is made.
K_init(cls, sch, schAnon, cpt_type, cpt_id, string, opts_string, nodes, args) ==
    IF Len(args) < 2 THEN Raised("IndexError", schAnon)
    ELSE Cpt_init(cls, <<args[1], args[2]>>, sch, schAnon, cpt_type, cpt_id,
                  string, opts_string, nodes, SubSeq(args, 3, Len(args)))

\* newclass(...): the __init__ the class resolves to.
New(cls, sch, schAnon, cpt_type, cpt_id, string, opts_string, nodes, args) ==
    IF Resolve(cls, {"Cpt", "K"}) = "K"
    THEN K_init(cls, sch, schAnon, cpt_type, cpt_id, string, opts_string, nodes, args)
    ELSE Cpt_init(cls, <<>>, sch, schAnon, cpt_type, cpt_id, string, opts_string,
                  nodes, args)

\* The class make() picks: the module attribute of that name when there is
\* one, else the registry's entry (<<>>: neither, classes[classname] raises).
MakeClass(reg, classname) ==
    IF classname \in DOMAIN ModuleClasses THEN ModuleClasses[classname]
    ELSE IF classname \in DOMAIN reg THEN reg[classname]
    ELSE <<>>

\* make(classname, parent, cpt_type, cpt_id, string, opts_string, nodes, *args)
make(reg, schAnon, classname, parent, cpt_type, cpt_id, string, opts_string, nodes, args) ==
    LET newclass == MakeClass(reg, classname)
    IN  IF newclass = <<>> THEN Raised("KeyError", schAnon)
        ELSE New(newclass, parent, schAnon, cpt_type, cpt_id, string, opts_string,
                 nodes, args)

(***************************************************************************)
(* The nodes of a component.                                               *)
(***************************************************************************)
Ok(val)  == [err |-> "", val |-> val]
Err(e)   == [err |-> e, val |-> <<>>]

\* Wire: whether the wire is an implicit connection (one node only).
Implicit(c) == \/ "implicit" \in DOMAIN c.opts
               \/ "ground" \in DOMAIN c.opts
               \/ "sground" \in DOMAIN c.opts

\* vnodes: Cpt.vnodes, VCS.vnodes, Opamp.vnodes or Wire.vnodes.
vnodes(c) ==
    LET by == Resolve(c.cls, {"Cpt", "VCS", "Opamp", "Wire"})
    IN  CASE by = "VCS" -> Ok(SubSeq(c.nodes, 1, IF Len(c.nodes) < 2 THEN Len(c.nodes) ELSE 2))
          [] by = "Opamp" -> IF c.nodes = <<>> THEN Err("IndexError")
                             ELSE Ok(<<c.nodes[1]>> \o SubSeq(c.nodes, 3, Len(c.nodes)))
          [] by = "Wire" -> IF Implicit(c)
                            THEN IF c.nodes = <<>> THEN Err("IndexError")
                                 ELSE Ok(<<c.nodes[1]>>)
                            ELSE Ok(c.nodes)
          [] OTHER -> Ok(c.nodes)

\* The two inductors' nodes in the other order.
K_dnodes_swapped(c, elems, all) ==
    IF c.sch = "None" THEN Err("AttributeError")
    ELSE IF c.Lnames[1] \notin DOMAIN elems THEN Err("KeyError")
    ELSE IF c.Lnames[2] \notin DOMAIN elems THEN Err("KeyError")
    ELSE Ok(all[elems[c.Lnames[2]]].nodes \o all[elems[c.Lnames[1]]].nodes)

\* K.dnodes: the nodes of the two inductors, looked up by name in sch.elements
\* when the property is read.
K_dnodes(c, elems, all) ==
    IF c.sch = "None" THEN Err("AttributeError")
    ELSE IF c.Lnames[1] \notin DOMAIN elems THEN Err("KeyError")
    ELSE IF c.Lnames[2] \notin DOMAIN elems THEN Err("KeyError")
    ELSE Ok(all[elems[c.Lnames[1]]].nodes \o all[elems[c.Lnames[2]]].nodes)

\* dnodes: K.dnodes for a mutual coupling, else Cpt.dnodes (the vnodes).
dnodes(c, elems, all) ==
    IF Resolve(c.cls, {"Cpt", "K"}) = "K" THEN K_dnodes(c, elems, all)
    ELSE vnodes(c)

(***************************************************************************)
(* Options.  An option value the code converts with float() is a sequence  *)
(* of characters; the orientation is a plain string.                       *)
(***************************************************************************)
DigitVal(ch) == CHOOSE d \in 0..9 : Digits[d + 1] = ch

IsDigits(s) == s # <<>> /\ \A i \in DOMAIN s : s[i] \in Range(Digits)

RECURSIVE DigitsVal(_)
DigitsVal(s) == IF s = <<>> THEN 0
                ELSE 10 * DigitsVal(SubSeq(s, 1, Len(s) - 1)) + DigitVal(s[Len(s)])

\* float(s) for a string of an optional sign and digits; any other string
\* is a ValueError.
Float(s) ==
    IF s # <<>> /\ s[1] = "-" /\ IsDigits(Tail(s)) THEN Ok(0 - DigitsVal(Tail(s)))
    ELSE IF IsDigits(s) THEN Ok(DigitsVal(s))
    ELSE Err("ValueError")

\* Cpt.size: float(self.opts.get('size', 1.0))
size(c) == IF "size" \in DOMAIN c.opts THEN Float(c.opts["size"]) ELSE Ok(1)

\* Cpt.mirror
mirror(c) == "mirror" \in DOMAIN c.opts

(***************************************************************************)
(* Orientation.  Each predicate reads self.opts['dir'], a KeyError when    *)
(* the option is absent.                                                   *)
(***************************************************************************)
\* A lenient predicate: no orientation option reads as false.
DirIs_lenient(c, values) ==
    IF "dir" \notin DOMAIN c.opts THEN Ok(FALSE)
    ELSE Ok(c.opts["dir"] \in values)

DirIs(c, values) ==
    IF "dir" \notin DOMAIN c.opts THEN Err("KeyError")
    ELSE Ok(c.opts["dir"] \in values)

down(c)       == DirIs(c, {"down"})
up(c)         == DirIs(c, {"up"})
left(c)       == DirIs(c, {"left"})
right(c)      == DirIs(c, {"right"})
horizontal(c) == DirIs(c, {"left", "right"})
vertical(c)   == DirIs(c, {"left", "down"})

\* The base angle of an orientation the if / elif chain of Cpt.angle knows.
BaseAngle(dir) ==
    CASE dir = "right" -> 0
      [] dir = "down"  -> -90
      [] dir = "left"  -> 180
      [] dir = "up"    -> 90

\* Cpt.angle
angle(c) ==
    IF "dir" \notin DOMAIN c.opts THEN Err("KeyError")
    ELSE IF c.opts["dir"] \notin {"right", "down", "left", "up"} THEN Err("ValueError")
    ELSE IF "rotate" \in DOMAIN c.opts
         THEN LET r == Float(c.opts["rotate"])
              IN  IF r.err # "" THEN r ELSE Ok(BaseAngle(c.opts["dir"]) + r.val)
         ELSE Ok(BaseAngle(c.opts["dir"]))

(***************************************************************************)
(* Numbers.  A coordinate <<h, d>> is h hundredths plus d hundredths of a  *)
(* drift unit; a matrix entry <<u, d>> is u plus d drift units.  The drift *)
(* unit is the error of np.cos and np.sin at a multiple of 90 degrees: t = *)
(* angle / 180.0 * np.pi falls short of m * pi / 2 by m units (about       *)
(* 6.1e-17 each), so cos t = cos0 + m * sin0 units and sin t = sin0 -      *)
(* m * cos0 units, to first order.  Exact values have d = 0.               *)
(***************************************************************************)
Exact(u) == <<u, 0>>

Plus(a, b)  == <<a[1] + b[1], a[2] + b[2]>>
Minus(a, b) == <<a[1] - b[1], a[2] - b[2]>>

\* A point's exact coordinate (hundredths) times a matrix entry.
Times(x, e) == <<x * e[1], x * e[2]>>

\* A coordinate times an integer factor.
Scaled(a, k) == <<a[1] * k, a[2] * k>>

\* cos and sin of m quarter turns, exactly.
Cos0(m) == CASE m % 4 = 0 -> 1 [] m % 4 = 2 -> -1 [] OTHER -> 0
Sin0(m) == CASE m % 4 = 1 -> 1 [] m % 4 = 3 -> -1 [] OTHER -> 0

\* np.cos(t) and np.sin(t) for t = angle / 180.0 * np.pi, angle a multiple of 90.
NpCos(a) == LET m == a \div 90 IN <<Cos0(m), m * Sin0(m)>>
NpSin(a) == LET m == a \div 90 IN <<Sin0(m), 0 - m * Cos0(m)>>

Matrix(a, b, c, d) == << <<Exact(a), Exact(b)>>, <<Exact(c), Exact(d)>> >>

\* A table with the entries of 90 and -90 exchanged.
Rdict_exchanged(a) ==
    CASE a = 0    -> Matrix(1, 0, 0, 1)
      [] a = 90   -> Matrix(0, -1, 1, 0)
      [] a = 180  -> Matrix(-1, 0, 0, -1)
      [] a = -180 -> Matrix(-1, 0, 0, -1)
      [] a = -90  -> Matrix(0, 1, -1, 0)

\* Rdict of Cpt.R: the exact matrices of the angles it lists.
Rdict(a) ==
    CASE a = 0    -> Matrix(1, 0, 0, 1)
      [] a = 90   -> Matrix(0, 1, -1, 0)
      [] a = 180  -> Matrix(-1, 0, 0, -1)
      [] a = -180 -> Matrix(-1, 0, 0, -1)
      [] a = -90  -> Matrix(0, -1, 1, 0)

\* The general formula of Cpt.R: ((cos t, sin t), (-sin t, cos t)).
Rformula(a) ==
    << <<NpCos(a), NpSin(a)>>, <<Minus(Exact(0), NpSin(a)), NpCos(a)>> >>

\* Cpt.R
R(c) ==
    LET a == angle(c)
    IN  IF a.err # "" THEN a
        ELSE IF a.val \in {0, 90, 180, -180, -90} THEN Ok(Rdict(a.val))
        ELSE Ok(Rformula(a.val))

(***************************************************************************)
(* Local coordinates, in hundredths.                                       *)
(***************************************************************************)
\* npos and ppos of Transistor, JFET, MOSFET, Opamp and FDOpamp.
Npos(by) ==
    CASE by = "Transistor" -> << <<100, 150>>, <<0, 75>>, <<100, 0>> >>
      [] by = "JFET"       -> << <<100, 150>>, <<0, 48>>, <<100, 0>> >>
      [] by = "MOSFET"     -> << <<85, 152>>, <<-25, 76>>, <<85, 0>> >>
      [] by = "Opamp"      -> << <<240, 0>>, <<0, -50>>, <<0, 50>> >>
      [] by = "FDOpamp"    -> << <<205, 100>>, <<205, 0>>, <<0, 0>>, <<0, 100>> >>

Ppos(by) ==
    CASE by = "Transistor" -> << <<100, 0>>, <<0, 75>>, <<100, 150>> >>
      [] by = "JFET"       -> << <<100, 0>>, <<0, 102>>, <<100, 150>> >>
      [] by = "MOSFET"     -> << <<85, 0>>, <<-25, 76>>, <<85, 152>> >>
      [] by = "Opamp"      -> << <<240, 0>>, <<0, 50>>, <<0, -50>> >>
      [] by = "FDOpamp"    -> << <<205, -100>>, <<205, 0>>, <<0, 0>>, <<0, -100>> >>

\* Transistor.coords with the mirror flag ignored.
Transistor_coords_unmirrored(c) ==
    LET by == Resolve(c.cls, {"Transistor", "JFET", "MOSFET"})
    IN  IF c.classname \in {"Qpnp", "Mpmos", "Jpjf"} THEN Ppos(by) ELSE Npos(by)

\* Transistor.coords
Transistor_coords(c) ==
    LET by == Resolve(c.cls, {"Transistor", "JFET", "MOSFET"})
    IN  IF c.classname \in {"Qpnp", "Mpmos", "Jpjf"}
        THEN IF mirror(c) THEN Npos(by) ELSE Ppos(by)
        ELSE IF mirror(c) THEN Ppos(by) ELSE Npos(by)

\* Opamp.coords and FDOpamp.coords
Opamp_coords(c) ==
    LET by == Resolve(c.cls, {"Opamp", "FDOpamp"})
    IN  IF mirror(c) THEN Npos(by) ELSE Ppos(by)

\* coords: the property of the first class in the resolution order that has it.
coords(c) ==
    LET by == Resolve(c.cls, {"Cpt", "Transistor", "TwoPort", "OnePort", "Opamp",
                              "FDOpamp", "SPDT", "Logic", "Wire"})
    IN  CASE by = "Transistor" -> Ok(Transistor_coords(c))
          [] by \in {"Opamp", "FDOpamp"} -> Ok(Opamp_coords(c))
          [] by = "TwoPort" -> Ok(<< <<100, 100>>, <<100, 0>>, <<0, 100>>, <<0, 0>> >>)
          [] by = "OnePort" -> Ok(<< <<0, 0>>, <<100, 0>> >>)
          [] by = "SPDT" -> Ok(<< <<0, 15>>, <<60, 30>>, <<60, 0>> >>)
          [] by = "Logic" -> Ok(<< <<0, 0>>, <<75, 0>> >>)
          [] by = "Wire" -> IF Implicit(c) THEN Ok(<< <<0, 0>> >>)
                            ELSE Ok(<< <<0, 0>>, <<100, 0>> >>)
          [] OTHER -> Err("NotImplementedError")

\* np.dot(np.array(coords), R): each point, a row vector, times the matrix.
Dot(pts, m) ==
    [i \in DOMAIN pts |->
        << Plus(Times(pts[i][1], m[1][1]), Times(pts[i][2], m[2][1])),
           Plus(Times(pts[i][1], m[1][2]), Times(pts[i][2], m[2][2])) >>]

\* Cpt.tcoords: the memoised value when there is one, else coords times R,
\* which is then memoised.  memo is the _tcoords attribute after the read.
tcoords(c) ==
    IF c.tcoords # <<>> THEN [err |-> "", val |-> c.tcoords[1], memo |-> c.tcoords]
    ELSE LET cs == coords(c)
             m  == R(c)
         IN  IF cs.err # "" THEN [err |-> cs.err, val |-> <<>>, memo |-> <<>>]
             ELSE IF m.err # "" THEN [err |-> m.err, val |-> <<>>, memo |-> <<>>]
             ELSE LET t == Dot(cs.val, m.val)
                  IN  [err |-> "", val |-> t, memo |-> <<t>>]

\* Cpt.xvals and Cpt.yvals: one column of tcoords.
Column(t, k) == [i \in DOMAIN t |-> t[i][k]]

(***************************************************************************)
(* Constraints for the layout solver.  graphs.x and graphs.y log the calls *)
(* made on the solver's graph of each axis: graphs.link(n1, n2) and        *)
(* graphs.add(n1, n2, value).  m1 and m2 are the loop indices of the call  *)
(* (from 1), kept to tell pairs apart when node names repeat.              *)
(***************************************************************************)
NoGraphs == [x |-> <<>>, y |-> <<>>, done |-> {}]

LinkCall(n1, n2, m1, m2) ==
    [call |-> "link", n1 |-> n1, n2 |-> n2, value |-> <<>>, m1 |-> m1, m2 |-> m2]
AddCall(n1, n2, value, m1, m2) ==
    [call |-> "add", n1 |-> n1, n2 |-> n2, value |-> value, m1 |-> m1, m2 |-> m2]

\* The index pairs of the two nested enumerate loops over n nodes, in order.
RECURSIVE PairsFrom(_, _, _)
PairsFrom(m1, m2, n) ==
    IF m1 > n THEN <<>>
    ELSE IF m2 > n THEN PairsFrom(m1 + 1, m1 + 2, n)
    ELSE << <<m1, m2>> >> \o PairsFrom(m1, m2 + 1, n)

PairList(n) == PairsFrom(1, 2, n)

\* The loop body of xlink / ylink over the pairs from the k-th on: a link
\* for each pair whose values are equal; an index past the values raises.
RECURSIVE LinkPairs(_, _, _, _)
LinkPairs(vals, dn, pairs, k) ==
    IF k > Len(pairs) THEN [err |-> "", calls |-> <<>>]
    ELSE LET m1 == pairs[k][1]
             m2 == pairs[k][2]
         IN  IF m2 > Len(vals) THEN [err |-> "IndexError", calls |-> <<>>]
             ELSE LET rest == LinkPairs(vals, dn, pairs, k + 1)
                      here == IF vals[m2] = vals[m1]
                              THEN <<LinkCall(dn[m1], dn[m2], m1, m2)>> ELSE <<>>
                  IN  [err |-> rest.err, calls |-> here \o rest.calls]

\* The loop body of xplace / yplace with the difference taken the other way.
RECURSIVE PlacePairs_reversed(_, _, _, _, _)
PlacePairs_reversed(vals, dn, sz, pairs, k) ==
    IF k > Len(pairs) THEN [err |-> "", calls |-> <<>>]
    ELSE LET m1 == pairs[k][1]
             m2 == pairs[k][2]
         IN  IF m2 > Len(vals) THEN [err |-> "IndexError", calls |-> <<>>]
             ELSE LET rest  == PlacePairs_reversed(vals, dn, sz, pairs, k + 1)
                      value == Scaled(Minus(vals[m1], vals[m2]), sz)
                  IN  [err |-> rest.err,
                       calls |-> <<AddCall(dn[m1], dn[m2], value, m1, m2)>> \o rest.calls]

\* The loop body of xplace / yplace: an add for every pair, with the value
\* (vals[m2] - vals[m1]) * size.
RECURSIVE PlacePairs(_, _, _, _, _)
PlacePairs(vals, dn, sz, pairs, k) ==
    IF k > Len(pairs) THEN [err |-> "", calls |-> <<>>]
    ELSE LET m1 == pairs[k][1]
             m2 == pairs[k][2]
         IN  IF m2 > Len(vals) THEN [err |-> "IndexError", calls |-> <<>>]
             ELSE LET rest  == PlacePairs(vals, dn, sz, pairs, k + 1)
                      value == Scaled(Minus(vals[m2], vals[m1]), sz)
                  IN  [err |-> rest.err,
                       calls |-> <<AddCall(dn[m1], dn[m2], value, m1, m2)>> \o rest.calls]

Failed(e, memo) == [err |-> e, calls |-> <<>>, memo |-> memo]

\* Cpt.xlink (k = 1) and Cpt.ylink (k = 2): the column of tcoords is read,
\* which memoises it, then the nodes are paired.
Cpt_link(c, k, elems, all) ==
    LET t  == tcoords(c)
        dn == dnodes(c, elems, all)
    IN  IF t.err # "" THEN Failed(t.err, t.memo)
        ELSE IF dn.err # "" THEN Failed(dn.err, t.memo)
        ELSE LET r == LinkPairs(Column(t.val, k), dn.val, PairList(Len(dn.val)), 1)
             IN  [err |-> r.err, calls |-> r.calls, memo |-> t.memo]

Cpt_xlink(c, elems, all) == Cpt_link(c, 1, elems, all)
Cpt_ylink(c, elems, all) == Cpt_link(c, 2, elems, all)

\* Cpt.xplace (k = 1) and Cpt.yplace (k = 2): size is read first, then the
\* column of tcoords, then the nodes are paired.
Cpt_place(c, k, elems, all) ==
    LET sz == size(c)
        t  == tcoords(c)
        dn == dnodes(c, elems, all)
    IN  IF sz.err # "" THEN Failed(sz.err, c.tcoords)
        ELSE IF t.err # "" THEN Failed(t.err, t.memo)
        ELSE IF dn.err # "" THEN Failed(dn.err, t.memo)
        ELSE LET r == PlacePairs(Column(t.val, k), dn.val, sz.val,
                                 PairList(Len(dn.val)), 1)
             IN  [err |-> r.err, calls |-> r.calls, memo |-> t.memo]

Cpt_xplace(c, elems, all) == Cpt_place(c, 1, elems, all)
Cpt_yplace(c, elems, all) == Cpt_place(c, 2, elems, all)

(***************************************************************************)
(* Drawing.  The markup is a sequence of commands, one per emitted line,   *)
(* each [cmd, args] with the values the format string is filled with.  A   *)
(* position is <<x, y>> in units of 1/400, so that the halves and quarters *)
(* the code takes of sums of positions are whole numbers.                  *)
(***************************************************************************)
Cmd(cmd, args) == [cmd |-> cmd, args |-> args]

\* kwargs.get(key, True)
KwGet(kwargs, key) == IF key \in DOMAIN kwargs THEN kwargs[key] ELSE TRUE

\* Pos + Pos, Pos * factor (factor = num / den) of lcapy.schemmisc.Pos.
PosAdd(p, q)           == <<p[1] + q[1], p[2] + q[2]>>
PosTimes(p, num, den)  == <<(p[1] * num) \div den, (p[2] * num) \div den>>

\* node.visible(draw_nodes) of the schematic's nodes.
NodeVisible(node, draw_nodes) == node.vis

\* lcapy.latex.format_label: the text it makes of a value, left opaque.
format_label(val) == <<"format_label", val>>

\* sch.cpt_size
sch_cpt_size == 600

voltage_keys == {"v", "v_", "v^", "v_>", "v_<", "v^>", "v^<"}
current_keys == {"i", "i_", "i^", "i_>", "i_<", "i^>", "i^<", "i>_", "i<_", "i>^", "i<^"}
label_keys   == {"l", "l_", "l^"}
misc_keys    == {"left", "right", "up", "down", "rotate", "size", "dir", "mirror", "scale"}

\* Cpt.opts_str: the key=value items of the options among choices.  The
\* items are kept as a mapping; the text joins them in the dict's order.
opts_str(c, choices) ==
    [k \in (DOMAIN c.opts) \cap choices |-> format_label(c.opts[k])]

voltage_str(c) == opts_str(c, voltage_keys)
current_str(c) == opts_str(c, current_keys)
label_str(c)   == opts_str(c, label_keys)

\* Cpt.args_str: the options that are passed through to circuitikz.
args_str(c) ==
    opts_str(c, (DOMAIN c.opts) \ (voltage_keys \cup current_keys \cup label_keys
                                      \cup misc_keys))

\* An attribute the owner sets on the instance: AttributeError when it did not.
Attr(c, name) == IF name \in DOMAIN c.attrs THEN Ok(c.attrs[name]) ELSE Err("AttributeError")

\* Cpt.label
label(c, kwargs) ==
    LET label_values == KwGet(kwargs, "label_values")
        dflt == IF label_values THEN Attr(c, "default_label") ELSE Ok(<<>>)
        over == opts_str(c, {"l"})
    IN  IF dflt.err # "" THEN dflt
        ELSE IF over # EmptyDict THEN Ok(<<over>>) ELSE Ok(dflt.val)

\* Cpt._node_str
node_str(node1, node2, kwargs) ==
    LET draw_nodes == KwGet(kwargs, "draw_nodes")
        a == IF NodeVisible(node1, draw_nodes)
             THEN (IF node1.port THEN <<"o">> ELSE <<"*">>) ELSE <<>>
        b == IF NodeVisible(node2, draw_nodes)
             THEN (IF node2.port THEN <<"o">> ELSE <<"*">>) ELSE <<>>
        t == a \o <<"-">> \o b
    IN  IF t = <<"-">> THEN <<>> ELSE t

\* Cpt._draw_node
draw_node(schNodes, n, kwargs) ==
    LET draw_nodes == KwGet(kwargs, "draw_nodes")
    IN  IF ~draw_nodes THEN Ok(<<>>)
        ELSE IF n \notin DOMAIN schNodes THEN Err("KeyError")
        ELSE IF ~NodeVisible(schNodes[n], draw_nodes) THEN Ok(<<>>)
        ELSE IF schNodes[n].port THEN Ok(<<Cmd("node ocirc", <<n>>)>>)
        ELSE Ok(<<Cmd("node circ", <<n>>)>>)

\* Cpt._draw_nodes over the nodes dn from the k-th on.
RECURSIVE draw_nodes_from(_, _, _, _)
draw_nodes_from(schNodes, dn, k, kwargs) ==
    IF k > Len(dn) THEN Ok(<<>>)
    ELSE LET here == draw_node(schNodes, dn[k], kwargs)
         IN  IF here.err # "" THEN here
             ELSE LET rest == draw_nodes_from(schNodes, dn, k + 1, kwargs)
                  IN  IF rest.err # "" THEN rest ELSE Ok(here.val \o rest.val)

\* Cpt._draw_nodes; dn is what the read of self.dnodes gives.
draw_nodes(schNodes, dn, kwargs) ==
    IF dn.err # "" THEN dn ELSE draw_nodes_from(schNodes, dn.val, 1, kwargs)

\* The result of a draw: the markup or the error, the options and the node
\* mapping after it.
Drawn(err, val, opts, schNodes) ==
    [err |-> err, val |-> val, opts |-> opts, nodes |-> schNodes]

\* [self.sch.nodes[n].pos for n in self.dnodes], unpacked into `want` names;
\* dn is what the read of self.dnodes gives.
Positions(c, schNodes, dn, want) ==
    IF dn.err # "" THEN dn
    ELSE IF dn.val # <<>> /\ c.sch = "None" THEN Err("AttributeError")
    ELSE IF \E k \in DOMAIN dn.val : dn.val[k] \notin DOMAIN schNodes
         THEN Err("KeyError")
    ELSE IF Len(dn.val) # want THEN Err("ValueError")
    ELSE Ok([k \in DOMAIN dn.val |-> schNodes[dn.val[k]].pos])

\* The first error among results, "" when there is none.
RECURSIVE FirstErr(_)
FirstErr(rs) == IF rs = <<>> THEN ""
                ELSE IF rs[1].err # "" THEN rs[1].err ELSE FirstErr(Tail(rs))

\* Cpt.scale: float(self.opts.get('scale', 1.0))
scale(c) == IF "scale" \in DOMAIN c.opts THEN Float(c.opts["scale"]) ELSE Ok(1)

\* Cpt.variable
variable(c) == "variable" \in DOMAIN c.opts

\* self.tikz_cpt: the class attribute defcpt sets, an AttributeError on a
\* class that no defcpt call made.
tikz_cpt(c) == IF HasTikz(c.cls) THEN Ok(TikzCpt(c.cls)) ELSE Err("AttributeError")

\* The draw methods.  In each, dn is what the method's reads of self.dnodes
\* give: the nodes, or the error the property raises.

\* Cpt.draw
Cpt_draw(c, schNodes) == Drawn("NotImplementedError", <<>>, c.opts, schNodes)

\* Transistor.draw
Transistor_draw(c, schNodes, dn, kwargs) ==
    LET ps == Positions(c, schNodes, dn, 3)
        centre == PosTimes(PosAdd(ps.val[1], ps.val[3]), 1, 2)
        tk == tikz_cpt(c)
        a  == angle(c)
        lb == label(c, kwargs)
        ns == draw_nodes(schNodes, dn, kwargs)
        e  == FirstErr(<<ps, tk, a, lb, ns>>)
        wires == IF tk.val \in {"pnp", "npn"}
                 THEN Cmd("wires CBE", <<c.name, dn.val>>)
                 ELSE Cmd("wires DGS", <<c.name, dn.val>>)
    IN  IF e # "" THEN Drawn(e, <<>>, c.opts, schNodes)
        ELSE Drawn("", << Cmd("node", <<centre, tk.val, args_str(c), a.val, c.name>>),
                          Cmd("label", <<centre, lb.val>>), wires >> \o ns.val,
                   c.opts, schNodes)

\* node.pos.y += dy on the node filed under a name.
ShiftY(schNodes, n, dy) == [schNodes EXCEPT ![n].pos = <<@[1], @[2] + dy>>]

\* TwoPort.draw: the four node positions are moved by 0.25 before anything
\* else is computed, in the schematic's own Pos objects.
TwoPort_draw(c, schNodes, dn, kwargs) ==
    LET ps == Positions(c, schNodes, dn, 4)
        n  == dn.val
        extra == 100
        moved == ShiftY(ShiftY(ShiftY(ShiftY(schNodes, n[1], extra), n[2], 0 - extra),
                               n[3], extra), n[4], 0 - extra)
        p[k \in 1..4] == moved[n[k]].pos
        width  == p[2][1] - p[4][1]
        centre == PosTimes(PosAdd(PosAdd(p[1], p[2]), PosAdd(p[3], p[4])), 1, 4)
        top    == <<centre[1], p[1][2] + 60>>
        title  == IF Len(c.args) < 3 THEN Err("IndexError") ELSE Ok(c.args[3])
        lb == label(c, kwargs)
        ns == draw_nodes(moved, dn, kwargs)
        e  == FirstErr(<<title, lb, ns>>)
    IN  IF ps.err # "" THEN Drawn(ps.err, <<>>, c.opts, schNodes)
        ELSE IF e # "" THEN Drawn(e, <<>>, c.opts, moved)
        ELSE Drawn("", << Cmd("box", <<p[4], p[3], p[1], p[2], p[4]>>),
                          Cmd("title", <<centre, width, title.val, c.name>>),
                          Cmd("label", <<top, width, lb.val>>) >> \o ns.val,
                   c.opts, moved)

\* TF1.draw with the keyword arguments it is called with: the two dots, the
\* label, and the link arc when link is true (the default).
TF1_draw(c, schNodes, dn, kwargs) ==
    LET link == KwGet(kwargs, "link")
        ps == Positions(c, schNodes, dn, 4)
        p  == ps.val
        xoffset == 40
        yoffset == sch_cpt_size \div 2
        primary_dot   == <<p[3][1] - xoffset, (p[3][2] + p[4][2]) \div 2 + yoffset>>
        secondary_dot == <<p[1][1] + xoffset, (p[1][2] + p[2][2]) \div 2 + yoffset>>
        centre   == PosTimes(PosAdd(PosAdd(p[1], p[2]), PosAdd(p[3], p[4])), 1, 4)
        labelpos == <<centre[1], primary_dot[2]>>
        lb == label(c, kwargs)
        width  == p[1][1] - p[3][1]
        arcpos == <<(p[1][1] + p[3][1]) \div 2, secondary_dot[2] - width \div 2 + 80>>
        arc == IF link THEN <<Cmd("arc", <<width \div 2, arcpos, width \div 2>>)>>
               ELSE <<>>
        e == FirstErr(<<ps, lb>>)
    IN  IF e # "" THEN Drawn(e, <<>>, c.opts, schNodes)
        ELSE Drawn("", << Cmd("dot", <<primary_dot>>), Cmd("dot", <<secondary_dot>>),
                          Cmd("label", <<labelpos, lb.val, c.name>>) >> \o arc,
                   c.opts, schNodes)

\* TF.draw: the two inductors, then super().draw(link=True, **kwargs), a
\* TypeError (link given twice) when the caller passes link itself.
TF_draw(c, schNodes, dn, kwargs) ==
    LET n  == dn.val
        sup == TF1_draw(c, schNodes, dn, DictSet(kwargs, "link", TRUE))
        ns == draw_nodes(schNodes, dn, kwargs)
    IN  IF dn.err # "" THEN Drawn(dn.err, <<>>, c.opts, schNodes)
        ELSE IF Len(n) # 4 THEN Drawn("ValueError", <<>>, c.opts, schNodes)
        ELSE IF "link" \in DOMAIN kwargs THEN Drawn("TypeError", <<>>, c.opts, schNodes)
        ELSE IF sup.err # "" THEN sup
        ELSE IF ns.err # "" THEN Drawn(ns.err, <<>>, c.opts, schNodes)
        ELSE Drawn("", << Cmd("inductor", <<n[3], n[4]>>),
                          Cmd("inductor", <<n[1], n[2]>>) >> \o sup.val \o ns.val,
                   c.opts, schNodes)

\* 'v' + voltage_pos, 'i' + current_pos + '<' and the like.
OptKey(base, pos, suffix) ==
    CASE <<base, pos, suffix>> = <<"v", "^", "">>  -> "v^"
      [] <<base, pos, suffix>> = <<"v", "_", "">>  -> "v_"
      [] <<base, pos, suffix>> = <<"v", "^", ">">> -> "v^>"
      [] <<base, pos, suffix>> = <<"v", "_", ">">> -> "v_>"
      [] <<base, pos, suffix>> = <<"i", "^", "">>  -> "i^"
      [] <<base, pos, suffix>> = <<"i", "_", "">>  -> "i_"
      [] <<base, pos, suffix>> = <<"i", "^", "<">> -> "i^<"
      [] <<base, pos, suffix>> = <<"i", "_", "<">> -> "i_<"
      [] <<base, pos, suffix>> = <<"l", "^", "">>  -> "l^"
      [] <<base, pos, suffix>> = <<"l", "_", "">>  -> "l_"

\* The new key set with the old one left in place.
Rekey_kept(opts, old, new) ==
    IF old \in DOMAIN opts THEN DictSet(opts, new, opts[old]) ELSE opts

\* self.opts[new] = self.opts.pop(old) when old is in self.opts
Rekey(opts, old, new) ==
    IF old \in DOMAIN opts THEN DictSet(DictDel(opts, old), new, opts[old]) ELSE opts

\* The types OnePort.draw draws from the second node to the first.
SwappedTypes == {"V", "I", "E", "F", "G", "H"}

\* A draw that swaps the nodes of no type.
Swaps_never(c) == FALSE

\* OnePort.draw: whether it swaps n1 and n2.
Swaps(c) == c.type \in SwappedTypes

\* OnePort.draw
OnePort_draw(c, schNodes, dn, kwargs) ==
    LET label_values == KwGet(kwargs, "label_values")
        label_ids    == KwGet(kwargs, "label_ids")
        tk == tikz_cpt(c)
        tikz == IF c.type = "R" /\ variable(c) THEN "vR" ELSE tk.val
        side == IF Swaps(c) THEN horizontal(c) ELSE vertical(c)
        n1 == IF Swaps(c) THEN dn.val[2] ELSE dn.val[1]
        n2 == IF Swaps(c) THEN dn.val[1] ELSE dn.val[2]
        label_pos   == IF side.val THEN "^" ELSE "_"
        voltage_pos == IF side.val THEN "_" ELSE "^"
        current_pos == label_pos
        o1 == Rekey(c.opts, "v", OptKey("v", voltage_pos, ""))
        o2 == Rekey(o1, "vr", OptKey("v", voltage_pos, ">"))
        o3 == Rekey(o2, "i", OptKey("i", current_pos, ""))
        o4 == Rekey(o3, "ir", OptKey("i", current_pos, "<"))
        o5 == Rekey(o4, "l", OptKey("l", label_pos, ""))
        d  == [c EXCEPT !.opts = o5]
        nstr == node_str(schNodes[n1], schNodes[n2], kwargs)
        astr == <<args_str(d), voltage_str(d), current_str(d)>>
        id   == Attr(d, "id_label")
        val  == Attr(d, "value_label")
        \* The conditions of the if / elif chain, in the order they are read.
        both == IF label_ids /\ label_values
                THEN IF id.err # "" THEN id
                     ELSE IF id.val = <<>> THEN Ok(FALSE)
                     ELSE IF val.err # "" THEN val ELSE Ok(val.val # <<>>)
                ELSE Ok(FALSE)
        ids  == IF label_ids
                THEN IF id.err # "" THEN id ELSE Ok(id.val # <<>>)
                ELSE Ok(FALSE)
        vals == IF label_values
                THEN IF val.err # "" THEN val ELSE Ok(val.val # <<>>)
                ELSE Ok(FALSE)
        dflt == IF both.err # "" THEN both
                ELSE IF both.val THEN Ok(<<"l", label_pos, id.val, val.val>>)
                ELSE IF ids.err # "" THEN ids
                ELSE IF ids.val THEN Ok(<<"l", label_pos, id.val>>)
                ELSE IF vals.err # "" THEN vals
                ELSE IF vals.val THEN Ok(<<"l", label_pos, val.val>>)
                ELSE Ok(<<>>)
        lstr == IF label_str(d) # EmptyDict THEN <<label_str(d)>> ELSE dflt.val
    IN  IF dn.err # "" THEN Drawn(dn.err, <<>>, c.opts, schNodes)
        ELSE IF Len(dn.val) # 2 THEN Drawn("ValueError", <<>>, c.opts, schNodes)
        ELSE IF tk.err # "" THEN Drawn(tk.err, <<>>, c.opts, schNodes)
        ELSE IF side.err # "" THEN Drawn(side.err, <<>>, c.opts, schNodes)
        ELSE IF c.sch = "None" THEN Drawn("AttributeError", <<>>, o5, schNodes)
        ELSE IF n1 \notin DOMAIN schNodes \/ n2 \notin DOMAIN schNodes
             THEN Drawn("KeyError", <<>>, o5, schNodes)
        ELSE IF dflt.err # "" THEN Drawn(dflt.err, <<>>, o5, schNodes)
        ELSE Drawn("", <<Cmd("to", <<n1, tikz, lstr, astr, nstr, c.name, n2>>)>>,
                   o5, schNodes)

\* Wire.draw_implicit
Wire_draw_implicit(c, schNodes, dn, kwargs) ==
    LET kind == IF "implicit" \in DOMAIN c.opts THEN "sground"
                ELSE IF "ground" \in DOMAIN c.opts THEN "ground"
                ELSE "sground"
        dwn == down(c)
        anchor == IF dwn.val THEN "north west" ELSE "south west"
        n1 == dn.val[1]
        a  == angle(c)
        m  == R(c)
        at == schNodes[n1].pos
        lpos == <<Plus(Exact(at[1]), Scaled(m.val[1][1], 100)),
                  Plus(Exact(at[2]), Scaled(m.val[1][2], 100))>>
        lb == label(c, kwargs)
    IN  IF dwn.err # "" THEN Drawn(dwn.err, <<>>, c.opts, schNodes)
        ELSE IF dn.err # "" THEN Drawn(dn.err, <<>>, c.opts, schNodes)
        ELSE IF a.err # "" THEN Drawn(a.err, <<>>, c.opts, schNodes)
        ELSE IF c.sch = "None" THEN Drawn("AttributeError", <<>>, c.opts, schNodes)
        ELSE IF n1 \notin DOMAIN schNodes THEN Drawn("KeyError", <<>>, c.opts, schNodes)
        ELSE IF "l" \notin DOMAIN c.opts
             THEN Drawn("", <<Cmd("ground", <<n1, kind, a.val + 90>>)>>, c.opts, schNodes)
        ELSE IF lb.err # "" THEN Drawn(lb.err, <<>>, c.opts, schNodes)
        ELSE Drawn("", << Cmd("ground", <<n1, kind, a.val + 90>>),
                          Cmd("label", <<anchor, lpos, lb.val>>) >>, c.opts, schNodes)

\* Wire.draw
Wire_draw(c, schNodes, dn, kwargs) ==
    IF Implicit(c) THEN Wire_draw_implicit(c, schNodes, dn, kwargs)
    ELSE OnePort_draw(c, schNodes, dn, kwargs)

\* Opamp.draw; the scales are in thousandths.
Opamp_draw(c, schNodes, dn, kwargs) ==
    LET ps == Positions(c, schNodes, dn, 3)
        p  == ps.val
        n  == dn.val
        centre == PosAdd(PosTimes(PosAdd(p[2], p[3]), 1, 4), PosTimes(p[1], 1, 2))
        sc == scale(c)
        yscale == IF mirror(c) THEN 2038 * sc.val ELSE 0 - 2038 * sc.val
        a  == angle(c)
        lb == label(c, kwargs)
        ns == draw_nodes(schNodes, dn, kwargs)
        e  == FirstErr(<<ps, sc, a, lb, ns>>)
    IN  IF e # "" THEN Drawn(e, <<>>, c.opts, schNodes)
        ELSE Drawn("", << Cmd("op amp", <<centre, args_str(c), 2020 * sc.val, yscale,
                                          a.val, c.name>>),
                          Cmd("out", <<c.name, n[1]>>),
                          Cmd("+", <<c.name, n[2]>>),
                          Cmd("-", <<c.name, n[3]>>),
                          Cmd("label", <<centre, lb.val>>) >> \o ns.val,
                   c.opts, schNodes)

\* FDOpamp.draw; the centre carries the drift of the rotation matrix.
FDOpamp_draw(c, schNodes, dn, kwargs) ==
    LET ps == Positions(c, schNodes, dn, 4)
        p  == ps.val
        n  == dn.val
        mid == PosTimes(PosAdd(PosAdd(p[1], p[2]), PosAdd(p[3], p[4])), 1, 4)
        m  == R(c)
        sc == scale(c)
        centre == <<Plus(Exact(mid[1]), Scaled(m.val[1][1], 60 * sc.val)),
                    Plus(Exact(mid[2]), Scaled(m.val[1][2], 60 * sc.val))>>
        yscale == IF mirror(c) THEN 2040 * sc.val ELSE 0 - 2040 * sc.val
        lb == label(c, kwargs)
        ns == draw_nodes(schNodes, dn, kwargs)
        e  == FirstErr(<<ps, m, sc, lb, ns>>)
    IN  IF e # "" THEN Drawn(e, <<>>, c.opts, schNodes)
        ELSE Drawn("", << Cmd("fd op amp", <<centre, args_str(c), 2020 * sc.val, yscale,
                                             angle(c).val, c.name>>),
                          Cmd("out +", <<c.name, n[1]>>),
                          Cmd("out -", <<c.name, n[2]>>),
                          Cmd("+", <<c.name, n[3]>>),
                          Cmd("-", <<c.name, n[4]>>),
                          Cmd("label", <<centre, lb.val>>) >> \o ns.val,
                   c.opts, schNodes)

\* SPDT.draw
SPDT_draw(c, schNodes, dn, kwargs) ==
    LET ps == Positions(c, schNodes, dn, 3)
        p  == ps.val
        centre == PosAdd(PosTimes(p[1], 1, 2), PosTimes(PosAdd(p[2], p[3]), 1, 4))
        below  == PosAdd(PosTimes(PosAdd(p[1], p[3]), 1, 2), <<0, -200>>)
        a  == angle(c)
        lb == label(c, kwargs)
        ns == draw_nodes(schNodes, dn, kwargs)
        e  == FirstErr(<<ps, a, lb, ns>>)
    IN  IF e # "" THEN Drawn(e, <<>>, c.opts, schNodes)
        ELSE Drawn("", << Cmd("spdt", <<centre, args_str(c), a.val, c.name>>),
                          Cmd("label", <<below, lb.val>>) >> \o ns.val,
                   c.opts, schNodes)

\* Logic.draw
Logic_draw(c, schNodes, dn, kwargs) ==
    LET ps == Positions(c, schNodes, dn, 2)
        p  == ps.val
        centre == PosTimes(PosAdd(p[1], p[2]), 1, 2)
        tk == tikz_cpt(c)
        a  == angle(c)
        lb == label(c, kwargs)
        ns == draw_nodes(schNodes, dn, kwargs)
        e  == FirstErr(<<ps, tk, a, lb, ns>>)
    IN  IF e # "" THEN Drawn(e, <<>>, c.opts, schNodes)
        ELSE Drawn("", << Cmd("node", <<centre, tk.val, args_str(c), a.val, c.name>>),
                          Cmd("label", <<centre, lb.val>>) >> \o ns.val,
                   c.opts, schNodes)

\* cpt.draw(**kwargs): the draw method of the first class in the resolution
\* order that has one, with what its reads of self.dnodes give.
draw(c, schNodes, elems, all, kwargs) ==
    LET by == Resolve(c.cls, {"Cpt", "Transistor", "TwoPort", "TF1", "TF", "OnePort",
                              "Opamp", "FDOpamp", "SPDT", "Logic", "Wire"})
    IN  CASE by = "Transistor" -> Transistor_draw(c, schNodes, dnodes(c, elems, all), kwargs)
          [] by = "TwoPort"    -> TwoPort_draw(c, schNodes, dnodes(c, elems, all), kwargs)
          [] by = "TF1"        -> TF1_draw(c, schNodes, dnodes(c, elems, all), kwargs)
          [] by = "TF"         -> TF_draw(c, schNodes, dnodes(c, elems, all), kwargs)
          [] by = "OnePort"    -> OnePort_draw(c, schNodes, dnodes(c, elems, all), kwargs)
          [] by = "Opamp"      -> Opamp_draw(c, schNodes, dnodes(c, elems, all), kwargs)
          [] by = "FDOpamp"    -> FDOpamp_draw(c, schNodes, dnodes(c, elems, all), kwargs)
          [] by = "SPDT"       -> SPDT_draw(c, schNodes, dnodes(c, elems, all), kwargs)
          [] by = "Logic"      -> Logic_draw(c, schNodes, dnodes(c, elems, all), kwargs)
          [] by = "Wire"       -> Wire_draw(c, schNodes, dnodes(c, elems, all), kwargs)
          [] OTHER             -> Cpt_draw(c, schNodes)

(***************************************************************************)
(* The schematic: what the owner of the components does with them.         *)
(***************************************************************************)
\* The schematic files a new component under its name.
SchRegister(elems, name, idx) == DictSet(elems, name, idx)

\* The schematic drops the component filed under a name.
SchRemove(elems, name) == DictDel(elems, name)

(***************************************************************************)
(* The netlist lines the parser hands to make(), a bounded pool.           *)
(***************************************************************************)
Line(classname, parent, cpt_type, cpt_id, string, opts_string, nodes, args) ==
    [classname |-> classname, parent |-> parent, cpt_type |-> cpt_type,
     cpt_id |-> cpt_id, string |-> string, opts_string |-> opts_string,
     nodes |-> nodes, args |-> args]

NameL1 == <<"L", "1">>
NameL2 == <<"L", "2">>

LineL1 == Line("L", "sch", "L", <<"1">>, <<"L1", "1", "2">>, <<>>, <<"1", "2">>, <<>>)
LineL2 == Line("L", "sch", "L", <<"2">>, <<"L2", "3", "4">>, <<>>, <<"3", "4">>, <<>>)
LineK1 ==
    Line("K", "sch", "K", <<"1">>, <<"K1", "L1", "L2">>, <<>>, <<>>, <<NameL1, NameL2>>)

Netlist == {
    LineL1, LineL2, LineK1,
    Line("L", "sch", "L", <<>>, <<"L", "1", "2">>, <<>>, <<"1", "2">>, <<>>),
    Line("K", "sch", "K", <<>>, <<"K", "L1", "L2">>, <<>>, <<>>, <<NameL1, NameL2>>),
    Line("K", "sch", "K", <<"2">>, <<"K2", "L1">>, <<>>, <<>>, <<NameL1>>),
    Line("R", "sch", "R", <<>>, <<"R", "1", "2", ";", "right">>, <<"right">>,
         <<"1", "2">>, <<>>),
    Line("R", "sch", "R", <<"1">>, <<"R1", "1", "2">>, <<>>, <<"1", "2">>, <<>>),
    Line("R", "None", "R", <<>>, <<"R", "1", "2">>, <<>>, <<"1", "2">>, <<>>),
    Line("TF", "sch", "TF", <<"1">>, <<"TF1", "1", "2", "3", "4">>, <<>>,
         <<"1", "2", "3", "4">>, <<>>),
    Line("X", "sch", "X", <<"1">>, <<"X1", "1", "2">>, <<>>, <<"1", "2">>, <<>>) }

(***************************************************************************)
(* The schematic under construction: components are made, filed, dropped,  *)
(* and a component's dnodes are read.                                      *)
(***************************************************************************)
Outcome(op, who, err, val) == [op |-> op, who |-> who, err |-> err, val |-> val]

Init ==
    /\ loaded = Len(DefcptCalls)
    /\ sch_anon = EmptyDict
    /\ cpts = <<>>
    /\ sch_elements = EmptyDict
    /\ sch_nodes = EmptyDict
    /\ graphs = NoGraphs
    /\ out = Outcome("init", 0, "", <<>>)

\* The schematic reads a line: make() builds the component and the schematic
\* files it under its name.
Make ==
    \E ln \in Netlist :
        /\ Len(cpts) < MaxCpts
        /\ LET r == make(classes, sch_anon, ln.classname, ln.parent, ln.cpt_type,
                         ln.cpt_id, ln.string, ln.opts_string, ln.nodes, ln.args)
           IN  IF r.err # ""
               THEN /\ out' = Outcome("make", 0, r.err, <<ln>>)
                    /\ UNCHANGED <<sch_anon, cpts, sch_elements>>
               ELSE /\ cpts' = Append(cpts, r.cpt)
                    /\ sch_anon' = r.anon
                    /\ sch_elements' =
                           IF ln.parent = "None" THEN sch_elements
                           ELSE SchRegister(sch_elements, r.cpt.name, Len(cpts) + 1)
                    /\ out' = Outcome("make", Len(cpts) + 1, "", <<ln>>)
        /\ UNCHANGED <<loaded, sch_nodes, graphs>>

\* The schematic drops a component.
Remove ==
    \E name \in DOMAIN sch_elements :
        /\ sch_elements' = SchRemove(sch_elements, name)
        /\ out' = Outcome("remove", sch_elements[name], "", <<>>)
        /\ UNCHANGED <<loaded, sch_anon, cpts, sch_nodes, graphs>>

\* A component's dnodes are read.
ReadDnodes ==
    \E i \in DOMAIN cpts :
        /\ LET r == dnodes(cpts[i], sch_elements, cpts)
           IN  out' = Outcome("dnodes", i, r.err, r.val)
        /\ UNCHANGED <<loaded, sch_anon, cpts, sch_elements, sch_nodes, graphs>>

Next == Make \/ Remove \/ ReadDnodes

Spec == Init /\ [][Next]_vars

(***************************************************************************)
(* The error kinds of the specification, as the exceptions of the code:    *)
(* a failed lookup by name is Python's KeyError, a rejected option value   *)
(* is the ValueError that Cpt.angle raises.                                *)
(***************************************************************************)
ReferenceError     == "KeyError"
ConfigurationError == "ValueError"

(***************************************************************************)
(* Claims about construction (specification Spec).                         *)
(***************************************************************************)
\* The components constructed in the schematic with an empty id.
IsAuto(c) == c.id = <<>> /\ c.sch = "sch"

\* How many auto ids of the type of cpts[i] were handed out up to cpts[i].
AutoRank(i) ==
    Cardinality({j \in 1..i : IsAuto(cpts[j]) /\ cpts[j].type = cpts[i].type})

\* C1: the auto-generated ids of one type are 1, 2, 3, ... in construction
\* order (so strictly increasing from 1 and never repeated), counted per type,
\* whatever other components were constructed or removed in between.
C1_AutoIdsSequential ==
    \A i \in DOMAIN cpts :
        IsAuto(cpts[i]) =>
            cpts[i].name = <<cpts[i].type, "@">> \o Str(AutoRank(i))

\* C1 witness: two auto ids of one type with the first component removed
\* before the second was made, and an auto id of another type.
C1_Witness ==
    \E i, j, k \in DOMAIN cpts :
        /\ i < j
        /\ IsAuto(cpts[i]) /\ IsAuto(cpts[j]) /\ IsAuto(cpts[k])
        /\ cpts[i].type = cpts[j].type
        /\ cpts[k].type # cpts[i].type
        /\ cpts[i].name \notin DOMAIN sch_elements
        /\ cpts[j].name = <<cpts[j].type, "@", "2">>

\* C2: every component's name is its stored type followed by its stored id,
\* and no two components of the schematic have the same name.
C2_NameIsTypePlusId ==
    /\ \A i \in DOMAIN cpts : cpts[i].name = <<cpts[i].type>> \o cpts[i].id
    /\ \A i, j \in DOMAIN cpts :
          (i # j /\ cpts[i].sch = "sch" /\ cpts[j].sch = "sch")
              => cpts[i].name # cpts[j].name

\* Whether cpts[i] is a mutual coupling of the schematic.
IsK(i) == i \in DOMAIN cpts /\ ClassName(cpts[i].cls) = "K" /\ cpts[i].sch = "sch"

\* Whether an inductor name of the coupling cpts[i] is not in sch.elements.
LnameAbsent(i) == \E n \in 1..2 : cpts[i].Lnames[n] \notin DOMAIN sch_elements

\* The component now filed under the n-th inductor name of cpts[i].
Lcpt(i, n) == cpts[sch_elements[cpts[i].Lnames[n]]]

\* C5 as claimed: constructing K while an inductor name is absent fails with a
\* ReferenceError, as does reading its dnodes; the read succeeds only when
\* both inductors were declared before K, and returns L1.nodes + L2.nodes.
C5_ConstructionFails ==
    /\ (out.op = "make" /\ out.val[1].classname = "K" /\ IsK(out.who)
            /\ LnameAbsent(out.who)) => out.err = ReferenceError
    /\ (out.op = "dnodes" /\ IsK(out.who) /\ LnameAbsent(out.who))
            => out.err = ReferenceError
    /\ (out.op = "dnodes" /\ IsK(out.who) /\ out.err = "")
            => /\ sch_elements[cpts[out.who].Lnames[1]] < out.who
               /\ sch_elements[cpts[out.who].Lnames[2]] < out.who
               /\ out.val = Lcpt(out.who, 1).nodes \o Lcpt(out.who, 2).nodes

\* C5 as amended: constructing K makes no lookup and succeeds whenever it
\* names two inductors; reading dnodes fails with a KeyError exactly when a
\* name is absent from sch.elements at the time of the read, and otherwise
\* returns the first inductor's nodes followed by the second's (4 entries),
\* whether the inductors were declared before K or after it.
C5_LookupAtRead ==
    /\ (out.op = "make" /\ out.val[1].classname = "K"
            /\ Len(out.val[1].args) >= 2) => out.err = ""
    /\ (out.op = "dnodes" /\ IsK(out.who)) =>
          /\ (out.err = ReferenceError) <=> LnameAbsent(out.who)
          /\ out.err \in {"", ReferenceError}
          /\ out.err = "" =>
                /\ out.val = Lcpt(out.who, 1).nodes \o Lcpt(out.who, 2).nodes
                /\ out.val = <<"1", "2", "3", "4">>

\* C5 witness: a successful read of the dnodes of a coupling that was
\* constructed before its second inductor was declared.
C5_Witness ==
    /\ out.op = "dnodes" /\ IsK(out.who) /\ out.err = ""
    /\ Len(out.val) = 4
    /\ sch_elements[cpts[out.who].Lnames[2]] > out.who

\* C8: make(name, ...) under a registered name instantiates the class the
\* registry holds under that name, with its render tag, and leaves the
\* registry as it was.
C8_MakeUsesRegistry ==
    /\ classes = LoadedClasses
    /\ (out.op = "make" /\ out.err = "" /\ out.val[1].classname \in DOMAIN classes)
          => LET reg == classes[out.val[1].classname]
                 got == cpts[out.who].cls
             IN  /\ got = reg
                 /\ HasTikz(got) /\ TikzCpt(got) = TikzCpt(reg)

(***************************************************************************)
(* One component and its options: the parser files option values in        *)
(* cpt.opts, and the geometry properties are read.                         *)
(***************************************************************************)
NodeNames(n) == SubSeq(<<"1", "2", "3", "4">>, 1, n)

\* A netlist line of a component of the schematic with n nodes.
CptLine(classname, cpt_type, cpt_id, n) ==
    Line(classname, "sch", cpt_type, cpt_id, <<classname>> \o NodeNames(n), <<>>,
         NodeNames(n), <<>>)

TransistorNames == {"Q", "Qnpn", "Qpnp", "J", "Jnjf", "Jpjf", "M", "Mnmos", "Mpmos"}
OpampNames      == {"Eopamp", "Efdopamp"}

GeomLines ==
    {CptLine(n, "Q", <<"1">>, 3) : n \in {"Q", "Qnpn", "Qpnp"}}
    \cup {CptLine(n, "J", <<"1">>, 3) : n \in {"J", "Jnjf", "Jpjf"}}
    \cup {CptLine(n, "M", <<"1">>, 3) : n \in {"M", "Mnmos", "Mpmos"}}
    \cup {CptLine(n, "E", <<"1">>, 4) : n \in OpampNames}
    \cup {CptLine("R", "R", <<"1">>, 2), CptLine("W", "W", <<>>, 2),
          CptLine("TP", "TP", <<"1">>, 4), CptLine("SWspdt", "SW", <<"1">>, 3)}

\* The option values the parser may file, a bounded pool.
OptionValues ==
    [dir    |-> {"right", "down", "left", "up", "diagonal"},
     rotate |-> {<<"9", "0">>},
     mirror |-> {""},
     ground |-> {""}]

InitGeom ==
    /\ loaded = Len(DefcptCalls)
    /\ sch_anon = EmptyDict
    /\ cpts = <<>>
    /\ sch_elements = EmptyDict
    /\ sch_nodes = EmptyDict
    /\ graphs = NoGraphs
    /\ out = Outcome("init", 0, "", <<>>)

\* The one component is made and filed.
MakeOne ==
    \E ln \in GeomLines :
        /\ cpts = <<>>
        /\ LET r == make(classes, sch_anon, ln.classname, ln.parent, ln.cpt_type,
                         ln.cpt_id, ln.string, ln.opts_string, ln.nodes, ln.args)
           IN  IF r.err # ""
               THEN /\ out' = Outcome("make", 0, r.err, <<ln>>)
                    /\ UNCHANGED <<sch_anon, cpts, sch_elements>>
               ELSE /\ cpts' = Append(cpts, r.cpt)
                    /\ sch_anon' = r.anon
                    /\ sch_elements' = SchRegister(sch_elements, r.cpt.name, 1)
                    /\ out' = Outcome("make", 1, "", <<ln>>)
        /\ UNCHANGED <<loaded, sch_nodes, graphs>>

\* The owner files an option value: cpt.opts[key] = value.
SetOpt ==
    \E i \in DOMAIN cpts, key \in DOMAIN OptionValues :
        \E value \in OptionValues[key] :
            /\ cpts' = [cpts EXCEPT ![i].opts = DictSet(@, key, value)]
            /\ out' = Outcome("opts", i, "", <<>>)
            /\ UNCHANGED <<loaded, sch_anon, sch_elements, sch_nodes, graphs>>

\* The owner drops an option: del cpt.opts[key].
DelOpt ==
    \E i \in DOMAIN cpts :
        \E key \in DOMAIN cpts[i].opts :
            /\ cpts' = [cpts EXCEPT ![i].opts = DictDel(@, key)]
            /\ out' = Outcome("opts", i, "", <<>>)
            /\ UNCHANGED <<loaded, sch_anon, sch_elements, sch_nodes, graphs>>

\* The orientation predicates, by name.
Predicate(name, c) ==
    CASE name = "down" -> down(c)
      [] name = "up" -> up(c)
      [] name = "left" -> left(c)
      [] name = "right" -> right(c)
      [] name = "horizontal" -> horizontal(c)
      [] name = "vertical" -> vertical(c)

PredicateNames == {"down", "up", "left", "right", "horizontal", "vertical"}

\* An orientation predicate is read.
ReadPredicate ==
    \E i \in DOMAIN cpts, name \in PredicateNames :
        /\ LET r == Predicate(name, cpts[i])
           IN  out' = Outcome(name, i, r.err, <<r.val>>)
        /\ UNCHANGED <<loaded, sch_anon, cpts, sch_elements, sch_nodes, graphs>>

\* angle is read.
ReadAngle ==
    \E i \in DOMAIN cpts :
        /\ LET r == angle(cpts[i])
           IN  out' = Outcome("angle", i, r.err, <<r.val>>)
        /\ UNCHANGED <<loaded, sch_anon, cpts, sch_elements, sch_nodes, graphs>>

\* R is read.
ReadR ==
    \E i \in DOMAIN cpts :
        /\ LET r == R(cpts[i])
           IN  out' = Outcome("R", i, r.err, <<r.val>>)
        /\ UNCHANGED <<loaded, sch_anon, cpts, sch_elements, sch_nodes, graphs>>

\* coords is read.
ReadCoords ==
    \E i \in DOMAIN cpts :
        /\ LET r == coords(cpts[i])
           IN  out' = Outcome("coords", i, r.err, <<r.val>>)
        /\ UNCHANGED <<loaded, sch_anon, cpts, sch_elements, sch_nodes, graphs>>

\* tcoords is read, and memoised when it was computed.
ReadTcoords ==
    \E i \in DOMAIN cpts :
        /\ LET r == tcoords(cpts[i])
           IN  /\ out' = Outcome("tcoords", i, r.err, <<r.val, cpts[i].tcoords # <<>> >>)
               /\ cpts' = [cpts EXCEPT ![i].tcoords = r.memo]
        /\ UNCHANGED <<loaded, sch_anon, sch_elements, sch_nodes, graphs>>

NextGeom ==
    \/ MakeOne \/ SetOpt \/ DelOpt
    \/ ReadPredicate \/ ReadAngle \/ ReadR \/ ReadCoords \/ ReadTcoords

SpecGeom == InitGeom /\ [][NextGeom]_vars

(***************************************************************************)
(* Claims about orientation and local geometry (specification SpecGeom).   *)
(***************************************************************************)
Cardinal == {"right", "down", "left", "up"}

\* The component the last call was made on.
Subject == cpts[out.who]

\* Whether the subject has one of the four orientations and no extra rotation.
PlainCardinal ==
    /\ out.who \in DOMAIN cpts
    /\ "dir" \in DOMAIN Subject.opts /\ Subject.opts["dir"] \in Cardinal
    /\ "rotate" \notin DOMAIN Subject.opts

\* The rotation matrix of a quarters quarter turns, from exact cos and sin.
ExactRotation(a) ==
    LET m == a \div 90 IN Matrix(Cos0(m), Sin0(m), 0 - Sin0(m), Cos0(m))

\* The angle claimed for each orientation.
ClaimedAngle(dir) ==
    CASE dir = "right" -> 0 [] dir = "down" -> -90 [] dir = "left" -> 180
      [] dir = "up" -> 90

\* C3 as claimed: with no extra rotation the angle is right:0, down:-90,
\* left:180, up:90, the matrix is exact, right gives [[1,0],[0,1]] and down
\* gives [[0,1],[-1,0]], and the matrix is the general formula at the angle.
C3_DownMatrixAsClaimed ==
    /\ (PlainCardinal /\ out.op = "angle")
          => out.err = "" /\ out.val[1] = ClaimedAngle(Subject.opts["dir"])
    /\ (PlainCardinal /\ out.op = "R") =>
          /\ out.err = ""
          /\ out.val[1] = ExactRotation(ClaimedAngle(Subject.opts["dir"]))
          /\ Subject.opts["dir"] = "right" => out.val[1] = Matrix(1, 0, 0, 1)
          /\ Subject.opts["dir"] = "down" => out.val[1] = Matrix(0, 1, -1, 0)

\* C3 as amended: with no extra rotation the angle is right:0, down:-90,
\* left:180, up:90 and the matrix is the exact integer matrix of that angle,
\* equal to the general formula [[cos t, sin t], [-sin t, cos t]] there:
\* right [[1,0],[0,1]], down [[0,-1],[1,0]], left [[-1,0],[0,-1]],
\* up [[0,1],[-1,0]].
C3_CardinalMatrices ==
    /\ (PlainCardinal /\ out.op = "angle")
          => out.err = "" /\ out.val[1] = ClaimedAngle(Subject.opts["dir"])
    /\ (PlainCardinal /\ out.op = "R") =>
          /\ out.err = ""
          /\ out.val[1] = ExactRotation(ClaimedAngle(Subject.opts["dir"]))
          /\ Subject.opts["dir"] = "right" => out.val[1] = Matrix(1, 0, 0, 1)
          /\ Subject.opts["dir"] = "down" => out.val[1] = Matrix(0, -1, 1, 0)
          /\ Subject.opts["dir"] = "left" => out.val[1] = Matrix(-1, 0, 0, -1)
          /\ Subject.opts["dir"] = "up" => out.val[1] = Matrix(0, 1, -1, 0)

\* C3 witness: the matrix of a component pointing down was read.
C3_Witness ==
    /\ PlainCardinal /\ out.op = "R" /\ Subject.opts["dir"] = "down"
    /\ out.val[1] = Matrix(0, -1, 1, 0)

\* The reads that need the orientation.
OrientationReads == PredicateNames \cup {"angle", "R", "tcoords"}

NoDir  == out.who \in DOMAIN cpts /\ "dir" \notin DOMAIN Subject.opts
BadDir == /\ out.who \in DOMAIN cpts /\ "dir" \in DOMAIN Subject.opts
          /\ Subject.opts["dir"] \notin Cardinal

\* Whether the last call was a tcoords read answered from the memo.
FromMemo == out.op = "tcoords" /\ out.val[2]

\* C4 as claimed: a predicate, the angle, the matrix or the transformed
\* coordinates of a component with no orientation value, or with a value
\* other than the four, fails with a ConfigurationError, and a component
\* without an orientation flag is rejected at construction.
C4_ConfigurationErrorAlways ==
    /\ (out.op \in OrientationReads /\ (NoDir \/ BadDir))
          => out.err = ConfigurationError
    /\ (out.op = "make" /\ out.who \in DOMAIN cpts /\ "dir" \notin DOMAIN Subject.opts)
          => out.err # ""

\* C4 as amended: with no orientation value every predicate, the angle, the
\* matrix and a tcoords read that is not answered from the memo fail with a
\* KeyError; with a value other than right/down/left/up the predicates
\* return false, and the angle, the matrix and a tcoords read not answered
\* from the memo fail with a ValueError; a tcoords read answered from the
\* memo never fails; and construction never rejects a component for its
\* orientation, since its options are empty when the constructor returns.
C4_ErrorsByRead ==
    /\ (out.op \in OrientationReads /\ NoDir /\ ~FromMemo) => out.err = "KeyError"
    /\ (out.op \in PredicateNames /\ BadDir) => out.err = "" /\ out.val[1] = FALSE
    /\ (out.op \in {"angle", "R", "tcoords"} /\ BadDir /\ ~FromMemo)
          => out.err = ConfigurationError
    /\ FromMemo => out.err = ""
    /\ out.op = "make" => out.err = "" /\ Subject.opts = EmptyDict

\* C4 witness: the angle of a component with an unknown orientation was read
\* and failed.
C4_Witness ==
    /\ out.op = "angle" /\ BadDir /\ out.err = "ValueError"

\* A point list with every y negated, and with every y taken from h.
NegY(pts)       == [i \in DOMAIN pts |-> <<pts[i][1], 0 - pts[i][2]>>]
FlipY(pts, h)   == [i \in DOMAIN pts |-> <<pts[i][1], h - pts[i][2]>>]

\* The subject with one option dropped or filed, and as another class.
Without(c, key)    == [c EXCEPT !.opts = DictDel(@, key)]
With(c, key)       == [c EXCEPT !.opts = DictSet(@, key, "")]
AsClass(c, name)   == [c EXCEPT !.cls = MakeClass(classes, name), !.classname = name]

\* The N-type of a transistor family, and the height of its symbol.
NType(name)  == CASE name \in {"Q", "Qnpn", "Qpnp"} -> "Qnpn"
                  [] name \in {"J", "Jnjf", "Jpjf"} -> "Jnjf"
                  [] name \in {"M", "Mnmos", "Mpmos"} -> "Mnmos"
Height(name) == IF name \in {"M", "Mnmos", "Mpmos"} THEN 152 ELSE 150

MirrorFamily == TransistorNames \cup OpampNames

\* C6 as claimed: for the transistor and op-amp types the coords with mirror
\* set are the coords without it with every y negated, and differ from them;
\* a P-type transistor without mirror has the coords of the N-type with it.
C6_MirrorNegatesY ==
    (out.op = "coords" /\ Subject.classname \in MirrorFamily /\ mirror(Subject)) =>
        /\ out.val[1] = NegY(coords(Without(Subject, "mirror")).val)
        /\ out.val[1] # coords(Without(Subject, "mirror")).val

\* C6 as amended: for the op-amp types the coords with mirror set are the
\* coords without it with every y negated; for the transistor types they are
\* the coords without it with every y replaced by H - y, H the height of the
\* symbol (1.5 for Q and J types, 1.52 for M types): a reflection in the
\* symbol's horizontal mid-line, not in the x axis.  In both families the
\* mirrored coords differ from the unmirrored ones, and a P-type transistor
\* without mirror has the coords of the N-type with it.
C6_MirrorReflects ==
    /\ (out.op = "coords" /\ Subject.classname \in OpampNames /\ mirror(Subject)) =>
          /\ out.val[1] = NegY(coords(Without(Subject, "mirror")).val)
          /\ out.val[1] # coords(Without(Subject, "mirror")).val
    /\ (out.op = "coords" /\ Subject.classname \in TransistorNames /\ mirror(Subject)) =>
          /\ out.val[1] = FlipY(coords(Without(Subject, "mirror")).val,
                                Height(Subject.classname))
          /\ out.val[1] # coords(Without(Subject, "mirror")).val
    /\ (out.op = "coords" /\ Subject.classname \in {"Qpnp", "Jpjf", "Mpmos"}
            /\ ~mirror(Subject)) =>
          out.val[1] = coords(With(AsClass(Subject, NType(Subject.classname)),
                                   "mirror")).val

\* C6 witness: the coords of a mirrored transistor were read.
C6_Witness ==
    /\ out.op = "coords" /\ Subject.classname = "Mpmos" /\ mirror(Subject)
    /\ out.val[1] = << <<85, 152>>, <<-25, 76>>, <<85, 0>> >>

(***************************************************************************)
(* The layout pass over one component: the solver calls xlink, ylink,      *)
(* xplace and yplace once each, on a component whose options the parser    *)
(* has filed.                                                              *)
(***************************************************************************)
\* The schematic after reading the lines up to the k-th.
RECURSIVE Built(_, _)
Built(lines, k) ==
    IF k = 0 THEN [anon |-> EmptyDict, cpts |-> <<>>, elems |-> EmptyDict]
    ELSE LET b  == Built(lines, k - 1)
             ln == lines[k]
             r  == make(classes, b.anon, ln.classname, ln.parent, ln.cpt_type,
                        ln.cpt_id, ln.string, ln.opts_string, ln.nodes, ln.args)
         IN  [anon |-> r.anon, cpts |-> Append(b.cpts, r.cpt),
              elems |-> SchRegister(b.elems, r.cpt.name, Len(b.cpts) + 1)]

\* The lines read before a line: a coupling comes after its two inductors.
Before(ln) == IF ln.classname = "K" THEN <<LineL1, LineL2>> ELSE <<>>

LayoutLines == GeomLines \cup {LineK1, CptLine("E", "E", <<"1">>, 4)}

LayoutOptionValues == [size |-> {<<"2">>}] @@ OptionValues

\* Every option mapping over the keys: each key absent, or with one of its
\* values of the pool.
RECURSIVE OptsOver(_, _)
OptsOver(keys, values) ==
    IF keys = {} THEN {EmptyDict}
    ELSE LET k    == CHOOSE x \in keys : TRUE
             rest == OptsOver(keys \ {k}, values)
         IN  rest \cup {DictSet(d, k, v) : d \in rest, v \in values[k]}

LayoutOpts == OptsOver(DOMAIN LayoutOptionValues, LayoutOptionValues)

InitLayout ==
    /\ loaded = Len(DefcptCalls)
    /\ \E ln \in LayoutLines, opts \in LayoutOpts :
          LET lines == Before(ln) \o <<ln>>
              b     == Built(lines, Len(lines))
          IN  /\ sch_anon = b.anon
              /\ cpts = [b.cpts EXCEPT ![Len(lines)].opts = opts]
              /\ sch_elements = b.elems
    /\ sch_nodes = EmptyDict
    /\ graphs = NoGraphs
    /\ out = Outcome("init", 0, "", <<>>)

\* The component the layout pass is on: the last one read.
Laid == Len(cpts)

\* One call of the pass: the calls it makes are logged on the graph of its
\* axis, and the memoised tcoords are kept.
Pass(op, axis, r) ==
    /\ op \notin graphs.done
    /\ graphs' = [graphs EXCEPT ![axis] = @ \o r.calls, !.done = @ \cup {op}]
    /\ cpts' = [cpts EXCEPT ![Laid].tcoords = r.memo]
    /\ out' = Outcome(op, Laid, r.err, <<>>)
    /\ UNCHANGED <<loaded, sch_anon, sch_elements, sch_nodes>>

Xlink  == Pass("xlink", "x", Cpt_xlink(cpts[Laid], sch_elements, cpts))
Ylink  == Pass("ylink", "y", Cpt_ylink(cpts[Laid], sch_elements, cpts))
Xplace == Pass("xplace", "x", Cpt_xplace(cpts[Laid], sch_elements, cpts))
Yplace == Pass("yplace", "y", Cpt_yplace(cpts[Laid], sch_elements, cpts))

NextLayout == Xlink \/ Ylink \/ Xplace \/ Yplace

SpecLayout == InitLayout /\ [][NextLayout]_vars

(***************************************************************************)
(* Claims about the layout constraints (specification SpecLayout).         *)
(***************************************************************************)
AxisOps == [x |-> [link |-> "xlink", place |-> "xplace", col |-> 1],
            y |-> [link |-> "ylink", place |-> "yplace", col |-> 2]]

\* The drawn nodes of the component under the pass, and whether the pass can
\* run on it: its tcoords, dnodes and size are defined and every drawn node
\* has a coordinate.
LaidNodes == dnodes(cpts[Laid], sch_elements, cpts)
LaidVals(axis) == Column(tcoords(cpts[Laid]).val, AxisOps[axis].col)
LayoutOk ==
    /\ tcoords(cpts[Laid]).err = "" /\ LaidNodes.err = "" /\ size(cpts[Laid]).err = ""
    /\ Len(LaidNodes.val) <= Len(tcoords(cpts[Laid]).val)

LaidPairs == Range(PairList(Len(LaidNodes.val)))

\* The calls of one kind logged on an axis for one pair of nodes.
CallsFor(axis, kind, pr) ==
    {k \in DOMAIN graphs[axis] :
        /\ graphs[axis][k].call \in kind
        /\ graphs[axis][k].m1 = pr[1] /\ graphs[axis][k].m2 = pr[2]}

Coincide(axis, pr) == LaidVals(axis)[pr[2]] = LaidVals(axis)[pr[1]]
Offset(axis, pr) ==
    Scaled(Minus(LaidVals(axis)[pr[2]], LaidVals(axis)[pr[1]]), size(cpts[Laid]).val)

AllDone == graphs.done = {"xlink", "ylink", "xplace", "yplace"}

\* C10 as claimed: once the pass is over, each axis holds exactly one
\* constraint per pair of distinct drawn nodes: a link when the two
\* coordinates are equal, and otherwise, only otherwise, a placement of
\* (later minus earlier) times size.
C10_OneConstraintPerPair ==
    (AllDone /\ LayoutOk) =>
        \A axis \in {"x", "y"} : \A pr \in LaidPairs :
            /\ Cardinality(CallsFor(axis, {"link", "add"}, pr)) = 1
            /\ \A k \in CallsFor(axis, {"link", "add"}, pr) :
                  IF Coincide(axis, pr) THEN graphs[axis][k].call = "link"
                  ELSE /\ graphs[axis][k].call = "add"
                       /\ graphs[axis][k].value = Offset(axis, pr)

\* C10 as amended: on each axis the link call registers a must-coincide link
\* for exactly the pairs of distinct drawn nodes whose transformed
\* coordinates are equal, and the place call registers one placement
\* constraint for every pair, equal or not, with the value (coordinate of the
\* later node minus coordinate of the earlier node) times size, which is 0
\* for a coincident pair: such a pair holds two constraints, any other one.
C10_LinkAndPlace ==
    LayoutOk =>
        \A axis \in {"x", "y"} :
            /\ AxisOps[axis].link \in graphs.done =>
                  \A pr \in LaidPairs :
                      /\ Cardinality(CallsFor(axis, {"link"}, pr))
                            = IF Coincide(axis, pr) THEN 1 ELSE 0
                      /\ \A k \in CallsFor(axis, {"link"}, pr) :
                            /\ graphs[axis][k].n1 = LaidNodes.val[pr[1]]
                            /\ graphs[axis][k].n2 = LaidNodes.val[pr[2]]
            /\ AxisOps[axis].place \in graphs.done =>
                  \A pr \in LaidPairs :
                      /\ Cardinality(CallsFor(axis, {"add"}, pr)) = 1
                      /\ \A k \in CallsFor(axis, {"add"}, pr) :
                            /\ graphs[axis][k].value = Offset(axis, pr)
                            /\ Coincide(axis, pr) => graphs[axis][k].value = <<0, 0>>
                            /\ graphs[axis][k].n1 = LaidNodes.val[pr[1]]
                            /\ graphs[axis][k].n2 = LaidNodes.val[pr[2]]
            /\ \A k \in DOMAIN graphs[axis] :
                  /\ <<graphs[axis][k].m1, graphs[axis][k].m2>> \in LaidPairs
                  /\ graphs[axis][k].call = "link" => AxisOps[axis].link \in graphs.done
                  /\ graphs[axis][k].call = "add" => AxisOps[axis].place \in graphs.done

\* C10 witness: the pass is over on a component of size 2 with a pair of
\* nodes that coincide on x, which holds a link and a placement of 0, and a
\* pair that does not, which holds a placement alone.
C10_Witness ==
    /\ AllDone /\ LayoutOk /\ size(cpts[Laid]).val = 2
    /\ \E pr \in LaidPairs :
          /\ Coincide("x", pr)
          /\ CallsFor("x", {"link"}, pr) # {} /\ CallsFor("x", {"add"}, pr) # {}
    /\ \E pr \in LaidPairs :
          /\ ~Coincide("x", pr)
          /\ CallsFor("x", {"link"}, pr) = {}
          /\ \E k \in CallsFor("x", {"add"}, pr) : graphs.x[k].value = <<200, 0>>

(***************************************************************************)
(* The drawing pass: the schematic has read the lines, filed the options   *)
(* and the labels, and the layout solver has resolved the node positions;  *)
(* the renderer then calls draw on the last component, again and again.    *)
(***************************************************************************)
\* Node positions stay within MaxDrift quarter units of the unit square the
\* solver put them on: a two-port is drawn at most MaxDrift times.
MaxDrift == 3

OnePortNames == {"R", "L", "V", "I", "E", "F", "G", "H", "W"}

DrawLines ==
    {CptLine(n, n, <<"1">>, 2) : n \in OnePortNames \ {"E"}}
    \cup {CptLine("E", "E", <<"1">>, 4), CptLine("G", "G", <<"2">>, 4),
          CptLine("TF", "TF", <<"1">>, 4), CptLine("TF1", "TF", <<"2">>, 4), LineK1,
          CptLine("TP", "TP", <<"1">>, 4),
          Line("TP", "sch", "TP", <<"2">>, <<"TP2", "1", "2", "3", "4", "Z">>, <<>>,
               NodeNames(4), <<"1", "0", "Z">>),
          CptLine("Q", "Q", <<"1">>, 3), CptLine("M", "M", <<"1">>, 3),
          CptLine("SWspdt", "SW", <<"1">>, 3), CptLine("Ubuffer", "U", <<"1">>, 2),
          CptLine("Eopamp", "E", <<"2">>, 4), CptLine("Efdopamp", "E", <<"3">>, 4),
          CptLine("Cpt", "X", <<"1">>, 2)}

DrawOptionValues ==
    [dir |-> {"right", "down"},
     v |-> {<<"5">>}, vr |-> {<<"6">>}, i |-> {<<"7">>}, ir |-> {<<"8">>},
     l |-> {<<"9">>}, ground |-> {""}]

\* The options filed for a line: the marks of a two-terminal component, the
\* ground of a wire, the orientation and the label of any component.
DrawOpts(ln) ==
    IF ln.classname = "W" THEN OptsOver({"dir", "l", "ground"}, DrawOptionValues)
    ELSE IF ln.classname \in OnePortNames
         THEN OptsOver({"dir", "v", "vr", "i", "ir", "l"}, DrawOptionValues)
    ELSE OptsOver({"dir", "l"}, DrawOptionValues)

\* The labels the schematic sets on a component it has read.
Labelled   == [id_label |-> <<"id">>, value_label |-> <<"val">>, default_label |-> <<"id">>]
Unlabelled == [id_label |-> <<>>, value_label |-> <<>>, default_label |-> <<>>]

\* The schematic's nodes with the positions the solver resolved.
Node(x, y, port, vis) == [pos |-> <<x, y>>, port |-> port, vis |-> vis]

PlainNodes ==
    ("1" :> Node(400, 400, FALSE, TRUE)) @@ ("2" :> Node(400, 0, FALSE, TRUE))
        @@ ("3" :> Node(0, 400, FALSE, TRUE)) @@ ("4" :> Node(0, 0, FALSE, TRUE))

\* Node 1 and node 4 are ports, node 2 is not visible.
PortNodes ==
    ("1" :> Node(400, 400, TRUE, TRUE)) @@ ("2" :> Node(400, 0, FALSE, FALSE))
        @@ ("3" :> Node(0, 400, FALSE, TRUE)) @@ ("4" :> Node(0, 0, TRUE, TRUE))

\* The schematics drawn: the labels of the component and the nodes.
Schematics == {<<Labelled, PlainNodes>>, <<Labelled, PortNodes>>, <<Unlabelled, PortNodes>>}

\* The configurations the renderer calls draw with.
DrawKwargs == {
    EmptyDict,
    [link |-> FALSE], [link |-> TRUE], [draw_nodes |-> FALSE], [label_ids |-> FALSE],
    [label_values |-> FALSE], [label_ids |-> FALSE, label_values |-> FALSE],
    [draw_nodes |-> FALSE, link |-> FALSE] }

PageOk(schNodes) ==
    \A n \in DOMAIN schNodes :
        schNodes[n].pos[2] \in (0 - 100 * MaxDrift)..(400 + 100 * MaxDrift)

InitDraw ==
    /\ loaded = Len(DefcptCalls)
    /\ \E ln \in DrawLines :
         \E opts \in DrawOpts(ln), sch \in Schematics :
            LET lines == Before(ln) \o <<ln>>
                b     == Built(lines, Len(lines))
            IN  /\ sch_anon = b.anon
                /\ cpts = [b.cpts EXCEPT ![Len(lines)].opts = opts,
                                         ![Len(lines)].attrs = sch[1]]
                /\ sch_elements = b.elems
                /\ sch_nodes = sch[2]
    /\ graphs = NoGraphs
    /\ out = Outcome("init", 0, "", <<>>)

\* The renderer draws the last component read: the call's effects on the
\* options and on the node positions stay, whether it returns or raises.
Draw ==
    \E kwargs \in DrawKwargs :
        LET i == Len(cpts)
            r == draw(cpts[i], sch_nodes, sch_elements, cpts, kwargs)
        IN  /\ PageOk(r.nodes)
            /\ cpts' = [cpts EXCEPT ![i].opts = r.opts]
            /\ sch_nodes' = r.nodes
            /\ out' = Outcome("draw", i, r.err, <<kwargs, r.val>>)
            /\ UNCHANGED <<loaded, sch_anon, sch_elements, graphs>>

NextDraw == Draw

SpecDraw == InitDraw /\ [][NextDraw]_vars

(***************************************************************************)
(* C7: the transformer's link arc.                                         *)
(***************************************************************************)
\* The last draw: its component, its configuration, its markup.
DrawnCpt     == cpts[out.who]
DrawnKwargs  == out.val[1]
DrawnMarkup  == out.val[2]

HasArc(markup) == \E k \in DOMAIN markup : markup[k].cmd = "arc"

IsTransformer(c) == c.classname \in {"TF", "TF1"}

\* C7: every draw of a transformer returns markup, with the coupling arc
\* exactly when the link flag is true or omitted and without it when the
\* caller passes link=false.
C7_LinkFlagToggles ==
    (out.op = "draw" /\ IsTransformer(DrawnCpt))
        => /\ out.err = ""
           /\ HasArc(DrawnMarkup) <=> KwGet(DrawnKwargs, "link")

(***************************************************************************)
(* C9: the node order of the two-terminal components' draw command.        *)
(***************************************************************************)
\* A draw of a two-terminal component that returned its command.
TwoTerminalDrawn ==
    /\ out.op = "draw" /\ out.err = ""
    /\ DrawnCpt.classname \in OnePortNames
    /\ ~Implicit(DrawnCpt)

SourceTypes == {"V", "I", "E", "F", "G", "H"}

\* The command from node a to node b with the marker string in that order.
CommandFromTo(a, b) ==
    /\ Len(DrawnMarkup) = 1
    /\ DrawnMarkup[1].cmd = "to"
    /\ DrawnMarkup[1].args[1] = a
    /\ DrawnMarkup[1].args[7] = b
    /\ DrawnMarkup[1].args[5] = node_str(sch_nodes[a], sch_nodes[b], DrawnKwargs)

\* C9: a two-terminal component of type V, I, E, F, G or H emits its command
\* from its second stored node to its first, the node-marker string built
\* in that order; one of any other type emits it from its first node to its
\* second.
C9_SourcesSwapNodes ==
    TwoTerminalDrawn =>
        IF DrawnCpt.type \in SourceTypes
        THEN CommandFromTo(DrawnCpt.nodes[2], DrawnCpt.nodes[1])
        ELSE CommandFromTo(DrawnCpt.nodes[1], DrawnCpt.nodes[2])

\* A voltage source drawn from node 2 to node 1, node 1 a port and node 2
\* not visible, so that the marker string shows the order.
C9_Witness ==
    /\ TwoTerminalDrawn
    /\ DrawnCpt.type = "V"
    /\ CommandFromTo("2", "1")
    /\ DrawnMarkup[1].args[5] = <<"-", "o">>

(***************************************************************************)
(* C11: the memoised transformed coordinates (specification SpecGeom).     *)
(***************************************************************************)
\* The raw coords as exact numbers.
ExactPoints(pts) == [i \in DOMAIN pts |-> <<Exact(pts[i][1]), Exact(pts[i][2])>>]

\* C11: every transformed-coordinates read that returns gives the current
\* local coords times the current rotation matrix, whatever options were
\* filed or dropped since an earlier read, and the raw coords exactly when
\* the current angle is 0.
C11_ReadsAreCurrent ==
    (out.op = "tcoords" /\ out.err = "") =>
        /\ coords(Subject).err = "" /\ R(Subject).err = ""
        /\ out.val[1] = Dot(coords(Subject).val, R(Subject).val)
        /\ angle(Subject).val = 0 => out.val[1] = ExactPoints(coords(Subject).val)

(***************************************************************************)
(* C12: the option rewrites of a two-terminal component's draw             *)
(* (specification SpecDraw).                                               *)
(***************************************************************************)
GenericKeys == {"v", "vr", "i", "ir", "l"}

\* The position-qualified key of a generic key: the voltage keys on side vp,
\* the label and current keys on side lp.
Qualified(key, lp, vp) ==
    CASE key = "v"  -> IF vp = "^" THEN "v^" ELSE "v_"
      [] key = "vr" -> IF vp = "^" THEN "v^>" ELSE "v_>"
      [] key = "i"  -> IF lp = "^" THEN "i^" ELSE "i_"
      [] key = "ir" -> IF lp = "^" THEN "i^<" ELSE "i_<"
      [] key = "l"  -> IF lp = "^" THEN "l^" ELSE "l_"

\* Whether `after` is `before` with each generic key replaced by its
\* qualified key carrying the same value, every other entry kept.
Requalified(before, after, lp, vp) ==
    LET generic == GenericKeys \cap DOMAIN before
        kept    == (DOMAIN before) \ GenericKeys
        moved   == {Qualified(k, lp, vp) : k \in generic}
    IN  /\ DOMAIN after = kept \cup moved
        /\ \A k \in generic : after[Qualified(k, lp, vp)] = before[k]
        /\ \A k \in kept \ moved : after[k] = before[k]

\* A draw step of a two-terminal component that returned its command.
TwoTerminalDrawStep ==
    /\ out'.op = "draw" /\ out'.err = ""
    /\ cpts'[out'.who].classname \in OnePortNames
    /\ ~Implicit(cpts'[out'.who])

\* C12: a draw of a two-terminal component replaces each generic key present
\* in the options (v, vr, i, ir, l) by its position-qualified key carrying
\* the same value, the voltage keys on the side opposite to the label and
\* current keys; a draw of a component whose options hold no generic key
\* (every draw after the first) leaves the options unchanged, and drawing
\* again with the same configuration changes nothing and emits the same
\* markup.
C12_RewriteOnce ==
    [][TwoTerminalDrawStep =>
          LET i      == out'.who
              before == cpts[i].opts
              after  == cpts'[i].opts
              again  == draw(cpts'[i], sch_nodes', sch_elements', cpts', out'.val[1])
          IN  /\ \E lp, vp \in {"^", "_"} :
                    lp # vp /\ Requalified(before, after, lp, vp)
              /\ GenericKeys \cap DOMAIN after = {}
              /\ GenericKeys \cap DOMAIN before = {} => after = before
              /\ again.err = "" /\ again.opts = after /\ again.val = out'.val[2]]_vars

\* A resistor drawn to the right with all five marks: the voltage keys are
\* qualified above, the current and label keys below, with their values.
C12_Witness ==
    /\ TwoTerminalDrawn
    /\ DrawnCpt.type = "R"
    /\ DOMAIN DrawnCpt.opts = {"dir", "v^", "v^>", "i_", "i_<", "l_"}
    /\ DrawnCpt.opts["v^"] = <<"5">> /\ DrawnCpt.opts["v^>"] = <<"6">>
    /\ DrawnCpt.opts["i_"] = <<"7">> /\ DrawnCpt.opts["i_<"] = <<"8">>
    /\ DrawnCpt.opts["l_"] = <<"9">>

(***************************************************************************)
(* C13: the node positions under draw (specification SpecDraw).            *)
(***************************************************************************)
\* C13: after a draw that returned, of a component of any variant, every
\* schematic node is at the position the solver resolved for it, so that a
\* later draw reads the same positions and emits the same geometry.
C13_DrawKeepsPositions ==
    (out.op = "draw" /\ out.err = "") =>
        /\ \A n \in DOMAIN sch_nodes : sch_nodes[n].pos = PlainNodes[n].pos
        /\ draw(DrawnCpt, sch_nodes, sch_elements, cpts, DrawnKwargs).val = DrawnMarkup

====
